---- MODULE Spec2Model ----
(***************************************************************************)
(* Tic-tac-toe promo: the computer-opponent engine (public/game.mjs), the  *)
(* browser game controller (public/app.js) and the promo/idempotency       *)
(* backend (server.js), as state machines.                                 *)
(***************************************************************************)
EXTENDS Integers, Sequences, FiniteSets, TLC

(***************************************************************************)
(* Values                                                                  *)
(***************************************************************************)
\* JavaScript null where the other values are strings (a cell, a winner).
Null == "null"
\* JavaScript null where the other values are cell indices (a move).
NullMove == -1
\* JavaScript null where the other values are outcome objects.
NullOutcome == [isNull |-> TRUE]
\* JavaScript null where the other values are index triples (a combo).
NullCombo == <<>>

Cells == 0..8
Marks == {"X", "O"}
CellValues == Marks \cup {Null}

\* Array(9).fill(null)
EmptyBoard == [i \in Cells |-> Null]

\* JavaScript truthiness of a cell value: null is falsy, 'X' and 'O' truthy.
Truthy(v) == v # Null

winningCombos ==
  << <<0, 1, 2>>, <<3, 4, 5>>, <<6, 7, 8>>,
     <<0, 3, 6>>, <<1, 4, 7>>, <<2, 5, 8>>,
     <<0, 4, 8>>, <<2, 4, 6>> >>

\* -Infinity and Infinity of minimax / getBestMove: beyond every score.
NegInfinity == -1000
PosInfinity == 1000

\* JavaScript null or undefined where the other values are depths.
NullDepth == -1

\* difficultySettings: blunderRate is kept as the truth of
\* "Math.random() < blunderRate can hold" (0.25: yes, 0: never).
difficultySettings ==
  [easy   |-> [canBlunder |-> TRUE,  maxDepth |-> NullDepth],
   normal |-> [canBlunder |-> FALSE, maxDepth |-> 3],
   hard   |-> [canBlunder |-> FALSE, maxDepth |-> NullDepth]]

(***************************************************************************)
(* Board evaluator and search engine (public/game.mjs)                     *)
(***************************************************************************)
\* LineWins with the comparison against the third cell left out
LineWinsTwoCells(currentBoard, combo) ==
  /\ Truthy(currentBoard[combo[1]])
  /\ currentBoard[combo[1]] = currentBoard[combo[2]]

\* the condition of the if inside evaluateBoard's loop
LineWins(currentBoard, combo) ==
  /\ Truthy(currentBoard[combo[1]])
  /\ currentBoard[combo[1]] = currentBoard[combo[2]]
  /\ currentBoard[combo[1]] = currentBoard[combo[3]]

\* BoardFull with some() in place of every()
BoardFullSome(currentBoard) == \E i \in Cells : Truthy(currentBoard[i])

\* currentBoard.every(Boolean)
BoardFull(currentBoard) == \A i \in Cells : Truthy(currentBoard[i])

\* evaluateBoard with the draw test placed before the loop over the combos
evaluateBoardDrawFirst(currentBoard) ==
  IF BoardFull(currentBoard)
  THEN [winner |-> Null, combo |-> NullCombo, isDraw |-> TRUE]
  ELSE LET hits == {k \in 1..Len(winningCombos) :
                      LineWins(currentBoard, winningCombos[k])}
       IN IF hits # {}
          THEN LET k == CHOOSE h \in hits : \A j \in hits : h <= j
               IN [winner |-> currentBoard[winningCombos[k][1]],
                   combo |-> winningCombos[k], isDraw |-> FALSE]
          ELSE NullOutcome

\* evaluateBoard returning the last combo that LineWins instead of the first
evaluateBoardLastLine(currentBoard) ==
  LET hits == {k \in 1..Len(winningCombos) :
                 LineWins(currentBoard, winningCombos[k])}
  IN IF hits # {}
     THEN LET k == CHOOSE h \in hits : \A j \in hits : h >= j
          IN [winner |-> currentBoard[winningCombos[k][1]],
              combo |-> winningCombos[k], isDraw |-> FALSE]
     ELSE IF BoardFull(currentBoard)
          THEN [winner |-> Null, combo |-> NullCombo, isDraw |-> TRUE]
          ELSE NullOutcome

\* The for loop returns at the first combo, in the order of winningCombos,
\* that LineWins; after the loop comes the draw test.
evaluateBoard(currentBoard) ==
  LET hits == {k \in 1..Len(winningCombos) :
                 LineWins(currentBoard, winningCombos[k])}
  IN IF hits # {}
     THEN LET k == CHOOSE h \in hits : \A j \in hits : h <= j
          IN [winner |-> currentBoard[winningCombos[k][1]],
              combo |-> winningCombos[k], isDraw |-> FALSE]
     ELSE IF BoardFull(currentBoard)
          THEN [winner |-> Null, combo |-> NullCombo, isDraw |-> TRUE]
          ELSE NullOutcome

\* values.filter((value) => value === mark).length
CountIn(currentBoard, combo, mark) ==
  Cardinality({j \in 1..3 : currentBoard[combo[j]] = mark})

\* LineScore counting a line of three like a line of two
LineScoreThreeCounts(currentBoard, combo) ==
  LET oCount == CountIn(currentBoard, combo, "O")
      xCount == CountIn(currentBoard, combo, "X")
  IN IF oCount > 0 /\ xCount > 0 THEN 0
     ELSE (IF oCount >= 2 /\ xCount = 0 THEN 3 ELSE 0)
        + (IF oCount = 1 /\ xCount = 0 THEN 1 ELSE 0)
        - (IF xCount >= 2 /\ oCount = 0 THEN 3 ELSE 0)
        - (IF xCount = 1 /\ oCount = 0 THEN 1 ELSE 0)

\* what one combo adds to score in scoreBoard's loop
LineScore(currentBoard, combo) ==
  LET oCount == CountIn(currentBoard, combo, "O")
      xCount == CountIn(currentBoard, combo, "X")
  IN IF oCount > 0 /\ xCount > 0 THEN 0
     ELSE (IF oCount = 2 /\ xCount = 0 THEN 3 ELSE 0)
        + (IF oCount = 1 /\ xCount = 0 THEN 1 ELSE 0)
        - (IF xCount = 2 /\ oCount = 0 THEN 3 ELSE 0)
        - (IF xCount = 1 /\ oCount = 0 THEN 1 ELSE 0)

RECURSIVE scoreFrom(_, _)
\* scoreBoard's loop from combo number k on
scoreFrom(currentBoard, k) ==
  IF k > Len(winningCombos) THEN 0
  ELSE LineScore(currentBoard, winningCombos[k])
       + scoreFrom(currentBoard, k + 1)

scoreBoard(currentBoard) == scoreFrom(currentBoard, 1)

\* the indices the forEach loops act on: the cells with a falsy value
EmptyCells(currentBoard) == {i \in Cells : ~Truthy(currentBoard[i])}

\* Math.max / Math.min folded over a non-empty set of scores, starting from
\* -Infinity / Infinity
SetMax(S) == CHOOSE x \in S : \A y \in S : x >= y
SetMin(S) == CHOOSE x \in S : \A y \in S : x <= y

\* the global isFinite, which takes null for the number 0
IsFiniteCoerced(maxDepth) == maxDepth >= NullDepth

\* Number.isFinite(maxDepth)
IsFinite(maxDepth) == maxDepth # NullDepth

RECURSIVE minimax(_, _, _, _)
\* minimax taking 'X' for the computer's mark when it values a win
minimaxMarksSwapped(currentBoard, depth, isMaximizing, maxDepth) ==
  LET outcome == evaluateBoard(currentBoard)
  IN IF outcome # NullOutcome
     THEN IF outcome.isDraw THEN 0
          ELSE IF outcome.winner = "X" THEN 10 - depth ELSE depth - 10
     ELSE IF IsFinite(maxDepth) /\ depth >= maxDepth
          THEN scoreBoard(currentBoard)
          ELSE IF isMaximizing
               THEN SetMax({minimax([currentBoard EXCEPT ![index] = "O"],
                                    depth + 1, FALSE, maxDepth) :
                            index \in EmptyCells(currentBoard)})
               ELSE SetMin({minimax([currentBoard EXCEPT ![index] = "X"],
                                    depth + 1, TRUE, maxDepth) :
                            index \in EmptyCells(currentBoard)})

\* minimax with the depth left out of the value of a win
minimaxNoDepth(currentBoard, depth, isMaximizing, maxDepth) ==
  LET outcome == evaluateBoard(currentBoard)
  IN IF outcome # NullOutcome
     THEN IF outcome.isDraw THEN 0
          ELSE IF outcome.winner = "O" THEN 10 ELSE -10
     ELSE IF IsFinite(maxDepth) /\ depth >= maxDepth
          THEN scoreBoard(currentBoard)
          ELSE IF isMaximizing
               THEN SetMax({minimax([currentBoard EXCEPT ![index] = "O"],
                                    depth + 1, FALSE, maxDepth) :
                            index \in EmptyCells(currentBoard)})
               ELSE SetMin({minimax([currentBoard EXCEPT ![index] = "X"],
                                    depth + 1, TRUE, maxDepth) :
                            index \in EmptyCells(currentBoard)})

\* Each forEach places a mark on an empty cell, recurses, restores the cell
\* and folds the score with Math.max (maximizing) or Math.min; a board that
\* is not terminal has an empty cell, so the fold never stays at +-Infinity.
minimax(currentBoard, depth, isMaximizing, maxDepth) ==
  LET outcome == evaluateBoard(currentBoard)
  IN IF outcome # NullOutcome
     THEN IF outcome.isDraw THEN 0
          ELSE IF outcome.winner = "O" THEN 10 - depth ELSE depth - 10
     ELSE IF IsFinite(maxDepth) /\ depth >= maxDepth
          THEN scoreBoard(currentBoard)
          ELSE IF isMaximizing
               THEN SetMax({minimax([currentBoard EXCEPT ![index] = "O"],
                                    depth + 1, FALSE, maxDepth) :
                            index \in EmptyCells(currentBoard)})
               ELSE SetMin({minimax([currentBoard EXCEPT ![index] = "X"],
                                    depth + 1, TRUE, maxDepth) :
                            index \in EmptyCells(currentBoard)})

RECURSIVE bestMoveLoop(_, _, _, _, _)
\* bestMoveLoop scoring each candidate as if the computer moved again
bestMoveLoopMaxFirst(currentBoard, maxDepth, index, bestScore, move) ==
  IF index > 8 THEN move
  ELSE IF Truthy(currentBoard[index])
       THEN bestMoveLoop(currentBoard, maxDepth, index + 1, bestScore, move)
       ELSE LET score == minimax([currentBoard EXCEPT ![index] = "O"],
                                 0, TRUE, maxDepth)
            IN IF score > bestScore
               THEN bestMoveLoop(currentBoard, maxDepth, index + 1,
                                 score, index)
               ELSE bestMoveLoop(currentBoard, maxDepth, index + 1,
                                 bestScore, move)

\* bestMoveLoop keeping the cell seen last among equal scores
bestMoveLoopLastSeen(currentBoard, maxDepth, index, bestScore, move) ==
  IF index > 8 THEN move
  ELSE IF Truthy(currentBoard[index])
       THEN bestMoveLoop(currentBoard, maxDepth, index + 1, bestScore, move)
       ELSE LET score == minimax([currentBoard EXCEPT ![index] = "O"],
                                 0, FALSE, maxDepth)
            IN IF score >= bestScore
               THEN bestMoveLoop(currentBoard, maxDepth, index + 1,
                                 score, index)
               ELSE bestMoveLoop(currentBoard, maxDepth, index + 1,
                                 bestScore, move)

\* the forEach of getBestMove from index on, with the running bestScore/move
bestMoveLoop(currentBoard, maxDepth, index, bestScore, move) ==
  IF index > 8 THEN move
  ELSE IF Truthy(currentBoard[index])
       THEN bestMoveLoop(currentBoard, maxDepth, index + 1, bestScore, move)
       ELSE LET score == minimax([currentBoard EXCEPT ![index] = "O"],
                                 0, FALSE, maxDepth)
            IN IF score > bestScore
               THEN bestMoveLoop(currentBoard, maxDepth, index + 1,
                                 score, index)
               ELSE bestMoveLoop(currentBoard, maxDepth, index + 1,
                                 bestScore, move)

getBestMove(currentBoard, maxDepth) ==
  bestMoveLoop(currentBoard, maxDepth, 0, NegInfinity, NullMove)

\* Math.max(a, b) and Math.min(a, b)
MathMax(a, b) == IF a >= b THEN a ELSE b
MathMin(a, b) == IF a <= b THEN a ELSE b

(* The search on the array itself.  minimax and getBestMove write to the     *)
(* array they are given and write null back; the operators below return the  *)
(* array as each call leaves it next to the value the call returns, where    *)
(* minimax and getBestMove above return the value alone.                     *)
RECURSIVE minimaxInPlace(_, _, _, _)
RECURSIVE minimaxForEach(_, _, _, _, _, _)
\* a forEach of minimax that leaves the mark of the minimizing side in place
minimaxForEachUnrestored(currentBoard, depth, isMaximizing, maxDepth, index, bestScore) ==
  IF index > 8 THEN [score |-> bestScore, board |-> currentBoard]
  ELSE IF Truthy(currentBoard[index])
       THEN minimaxForEach(currentBoard, depth, isMaximizing, maxDepth,
                           index + 1, bestScore)
       ELSE LET placed == [currentBoard EXCEPT
                             ![index] = IF isMaximizing THEN "O" ELSE "X"]
                child == minimaxInPlace(placed, depth + 1, ~isMaximizing,
                                        maxDepth)
                restored == IF isMaximizing
                            THEN [child.board EXCEPT ![index] = Null]
                            ELSE child.board
            IN minimaxForEach(restored, depth, isMaximizing, maxDepth,
                              index + 1,
                              IF isMaximizing
                              THEN MathMax(bestScore, child.score)
                              ELSE MathMin(bestScore, child.score))

\* The forEach of minimax from index on: value is the cell as the array
\* holds it when the index is visited; an empty cell is assigned the mark of
\* the side to move, the recursive call runs on the same array, and the cell
\* is assigned null.
minimaxForEach(currentBoard, depth, isMaximizing, maxDepth, index, bestScore) ==
  IF index > 8 THEN [score |-> bestScore, board |-> currentBoard]
  ELSE IF Truthy(currentBoard[index])
       THEN minimaxForEach(currentBoard, depth, isMaximizing, maxDepth,
                           index + 1, bestScore)
       ELSE LET placed == [currentBoard EXCEPT
                             ![index] = IF isMaximizing THEN "O" ELSE "X"]
                child == minimaxInPlace(placed, depth + 1, ~isMaximizing,
                                        maxDepth)
                restored == [child.board EXCEPT ![index] = Null]
            IN minimaxForEach(restored, depth, isMaximizing, maxDepth,
                              index + 1,
                              IF isMaximizing
                              THEN MathMax(bestScore, child.score)
                              ELSE MathMin(bestScore, child.score))

\* minimax(currentBoard, depth, isMaximizing, maxDepth): the score returned
\* and the array as the call leaves it
minimaxInPlace(currentBoard, depth, isMaximizing, maxDepth) ==
  LET outcome == evaluateBoard(currentBoard)
  IN IF outcome # NullOutcome
     THEN [score |-> IF outcome.isDraw THEN 0
                     ELSE IF outcome.winner = "O"
                          THEN 10 - depth ELSE depth - 10,
           board |-> currentBoard]
     ELSE IF IsFinite(maxDepth) /\ depth >= maxDepth
          THEN [score |-> scoreBoard(currentBoard), board |-> currentBoard]
          ELSE minimaxForEach(currentBoard, depth, isMaximizing, maxDepth, 0,
                              IF isMaximizing
                              THEN NegInfinity ELSE PosInfinity)

RECURSIVE getBestMoveForEach(_, _, _, _, _)
\* the forEach of getBestMove from index on, on the array itself
getBestMoveForEach(currentBoard, maxDepth, index, bestScore, move) ==
  IF index > 8 THEN [move |-> move, board |-> currentBoard]
  ELSE IF Truthy(currentBoard[index])
       THEN getBestMoveForEach(currentBoard, maxDepth, index + 1, bestScore,
                               move)
       ELSE LET placed == [currentBoard EXCEPT ![index] = "O"]
                child == minimaxInPlace(placed, 0, FALSE, maxDepth)
                restored == [child.board EXCEPT ![index] = Null]
            IN IF child.score > bestScore
               THEN getBestMoveForEach(restored, maxDepth, index + 1,
                                       child.score, index)
               ELSE getBestMoveForEach(restored, maxDepth, index + 1,
                                       bestScore, move)

\* getBestMove(currentBoard, maxDepth): the move returned and the array as
\* the call leaves it
getBestMoveInPlace(currentBoard, maxDepth) ==
  getBestMoveForEach(currentBoard, maxDepth, 0, NegInfinity, NullMove)

RECURSIVE availableFrom(_, _)
\* currentBoard.map(...).filter(...): the empty indices in ascending order
availableFrom(currentBoard, index) ==
  IF index > 8 THEN <<>>
  ELSE IF Truthy(currentBoard[index])
       THEN availableFrom(currentBoard, index + 1)
       ELSE <<index>> \o availableFrom(currentBoard, index + 1)

\* getRandomMove returning the drawn position instead of the cell found there
getRandomMovePosition(currentBoard, choice) ==
  LET available == availableFrom(currentBoard, 0)
  IN IF Len(available) = 0 THEN NullMove ELSE choice

\* choice is Math.floor(Math.random() * available.length)
getRandomMove(currentBoard, choice) ==
  LET available == availableFrom(currentBoard, 0)
  IN IF Len(available) = 0 THEN NullMove ELSE available[choice + 1]

\* On easy the draw that does not blunder is followed on boards with at most
\* this many empty cells; the blunder draws, followed on every board, reach
\* every empty cell, the cell of the best move among them.
MaxEmptyBest == 4

\* The random draws of one getAiMove call: lucky is the truth of
\* Math.random() < settings.blunderRate, drawn only after difficulty ===
\* 'easy' held, and choice is the draw of getRandomMove, made only on the
\* blunder path over a non-empty available list (0 stands for no draw).
Draws(currentBoard, difficulty) ==
  IF difficulty # "easy" THEN {[lucky |-> FALSE, choice |-> 0]}
  ELSE (IF Cardinality(EmptyCells(currentBoard)) <= MaxEmptyBest
        THEN {[lucky |-> FALSE, choice |-> 0]} ELSE {}) \cup
       {[lucky |-> TRUE, choice |-> c] :
          c \in IF EmptyCells(currentBoard) = {} THEN {0}
                ELSE 0..(Cardinality(EmptyCells(currentBoard)) - 1)}

\* Difficulty values: the three settings, a value that is no key of
\* difficultySettings, and a key inherited from Object.prototype (truthy, so
\* the || fallback is not taken, with blunderRate and maxDepth undefined).
Difficulties == {"easy", "normal", "hard", "expert", "toString"}

\* difficultySettings[difficulty] || difficultySettings.normal
SettingsFor(difficulty) ==
  IF difficulty \in DOMAIN difficultySettings
  THEN difficultySettings[difficulty]
  ELSE IF difficulty = "toString"
       THEN [canBlunder |-> FALSE, maxDepth |-> NullDepth]
       ELSE difficultySettings.normal

\* lucky is the truth of Math.random() < settings.blunderRate for a draw
\* below 0.25, choice the draw of getRandomMove
getAiMove(currentBoard, difficulty, lucky, choice) ==
  LET settings == SettingsFor(difficulty)
  IN IF difficulty = "easy" /\ lucky /\ settings.canBlunder
     THEN getRandomMove(currentBoard, choice)
     ELSE getBestMove(currentBoard, settings.maxDepth)

(***************************************************************************)
(* Calls of the exported functions on given arguments                      *)
(***************************************************************************)
VARIABLES
  argBoard,       \* the board passed to the call
  argDifficulty,  \* the difficulty passed to the call
  called,         \* "none" or the name of the function that has returned
  outcome,        \* the value evaluateBoard returned
  move,           \* the value getBestMove / getAiMove returned
  argSearch,      \* depth, isMaximizing and maxDepth passed to minimax
  score           \* the value scoreBoard / minimax returned

callVars == <<argBoard, argDifficulty, called, outcome, move, argSearch,
              score>>

AllBoards == [Cells -> CellValues]

CountMark(b, mark) == Cardinality({i \in Cells : b[i] = mark})

\* line number k of b holds three times the same mark
Complete(b, k) ==
  /\ b[winningCombos[k][1]] \in Marks
  /\ b[winningCombos[k][2]] = b[winningCombos[k][1]]
  /\ b[winningCombos[k][3]] = b[winningCombos[k][1]]

LineNumbers == 1..Len(winningCombos)

HasLine(b) == \E k \in LineNumbers : Complete(b, k)

Filled(b) == \A i \in Cells : b[i] \in Marks

\* The boards that legal alternating play (either side starting, play
\* stopping at the first terminal board) reaches with the game still on and
\* the computer to move: no complete line, an empty cell, and as many 'X' as
\* 'O' (computer started) or one more (player started).
ComputerToMoveBoards ==
  {b \in AllBoards :
     /\ ~HasLine(b)
     /\ ~Filled(b)
     /\ CountMark(b, "X") - CountMark(b, "O") \in {0, 1}}

\* score before a call has returned
NoScore == NegInfinity - 1

\* the arguments of the outermost minimax call of getBestMove(board)
NoSearch == [depth |-> 0, isMaximizing |-> FALSE, maxDepth |-> NullDepth]

CallInitNone ==
  /\ argBoard = EmptyBoard
  /\ argDifficulty = "normal"
  /\ called = "none"
  /\ outcome = NullOutcome
  /\ move = NullMove
  /\ argSearch = NoSearch
  /\ score = NoScore

CallEvaluateBoard ==
  /\ called = "none"
  /\ called' = "evaluateBoard"
  /\ outcome' = evaluateBoard(argBoard)
  /\ UNCHANGED <<argBoard, argDifficulty, move, argSearch, score>>

CallGetBestMove ==
  /\ called = "none"
  /\ called' = "getBestMove"
  /\ move' = getBestMove(argBoard, SettingsFor(argDifficulty).maxDepth)
  /\ UNCHANGED <<argBoard, argDifficulty, outcome, argSearch, score>>

CallGetAiMove ==
  /\ called = "none"
  /\ \E draw \in Draws(argBoard, argDifficulty) :
       move' = getAiMove(argBoard, argDifficulty, draw.lucky, draw.choice)
  /\ called' = "getAiMove"
  /\ UNCHANGED <<argBoard, argDifficulty, outcome, argSearch, score>>

CallScoreBoard ==
  /\ called = "none"
  /\ called' = "scoreBoard"
  /\ score' = scoreBoard(argBoard)
  /\ UNCHANGED <<argBoard, argDifficulty, outcome, move, argSearch>>

CallMinimax ==
  /\ called = "none"
  /\ called' = "minimax"
  /\ score' = minimax(argBoard, argSearch.depth, argSearch.isMaximizing,
                      argSearch.maxDepth)
  /\ UNCHANGED <<argBoard, argDifficulty, outcome, move, argSearch>>

\* getBestMove(argBoard, maxDepth) on the array argBoard holds
CallGetBestMoveInPlace ==
  /\ called = "none"
  /\ called' = "getBestMove"
  /\ LET found == getBestMoveInPlace(argBoard, argSearch.maxDepth)
     IN /\ move' = found.move
        /\ argBoard' = found.board
  /\ UNCHANGED <<argDifficulty, outcome, score, argSearch>>

\* minimax(argBoard, depth, isMaximizing, maxDepth) on the array argBoard
\* holds
CallMinimaxInPlace ==
  /\ called = "none"
  /\ called' = "minimax"
  /\ LET found == minimaxInPlace(argBoard, argSearch.depth,
                                 argSearch.isMaximizing, argSearch.maxDepth)
     IN /\ score' = found.score
        /\ argBoard' = found.board
  /\ UNCHANGED <<argDifficulty, outcome, move, argSearch>>

(***************************************************************************)
(* Game controller (public/app.js)                                         *)
(***************************************************************************)
VARIABLES
  board,            \* let board
  isLocked,         \* let isLocked
  gameOver,         \* let gameOver
  currentPromoCode, \* let currentPromoCode (NoCode: '')
  difficulty,       \* let difficulty
  playerStarts,     \* let playerStarts
  computerTimer,    \* let computerTimer: Null, or the id of a timeout that
                    \* is still to fire ("live") or has fired ("stale")
  computerPending,  \* number of computer-move timeouts set and not yet
                    \* fired or cleared
  winTimer,         \* let winTimer, as computerTimer
  winPending,       \* number of win timeouts set and not yet fired or cleared
  sent,             \* the reportResult calls made so far, in order
  awaiting          \* number of 'win' reports whose response is outstanding

gameVars == <<board, isLocked, gameOver, currentPromoCode, difficulty,
              playerStarts, computerTimer, computerPending, winTimer,
              winPending, sent, awaiting>>

\* the empty string of currentPromoCode and an absent code of a response
NoCode == 0

\* clearComputerTimer(): the pending count once the timeout the variable
\* names has been cleared
ComputerPendingCleared ==
  IF computerTimer = "live" THEN computerPending - 1 ELSE computerPending

\* clearWinTimer(), likewise
WinPendingCleared ==
  IF winTimer = "live" THEN winPending - 1 ELSE winPending

\* createEventId(): an identifier no earlier report carries
createEventId == Len(sent) + 1

\* queueComputerMove without the call of clearComputerTimer
queueComputerMoveUncleared ==
  /\ isLocked' = TRUE
  /\ computerTimer' = "live"
  /\ computerPending' = computerPending + 1

\* queueComputerMove()
queueComputerMove ==
  /\ isLocked' = TRUE
  /\ computerTimer' = "live"
  /\ computerPending' = ComputerPendingCleared + 1

\* endGame with a draw reported as well
endGameDrawReported(out) ==
  /\ gameOver' = TRUE
  /\ isLocked' = TRUE
  /\ IF out.isDraw
     THEN /\ currentPromoCode' = NoCode
          /\ sent' = Append(sent, [result |-> "draw",
                                   eventId |-> createEventId])
          /\ UNCHANGED <<winTimer, winPending>>
     ELSE IF out.winner = "X"
          THEN /\ winTimer' = "live"
               /\ winPending' = WinPendingCleared + 1
               /\ UNCHANGED <<currentPromoCode, sent>>
          ELSE /\ currentPromoCode' = NoCode
               /\ sent' = Append(sent, [result |-> "loss",
                                        eventId |-> createEventId])
               /\ UNCHANGED <<winTimer, winPending>>

\* endGame without the assignment isLocked = true
endGameLockKept(out) ==
  /\ gameOver' = TRUE
  /\ isLocked' = isLocked
  /\ IF out.isDraw
     THEN /\ currentPromoCode' = NoCode
          /\ UNCHANGED <<winTimer, winPending, sent>>
     ELSE IF out.winner = "X"
          THEN /\ winTimer' = "live"
               /\ winPending' = WinPendingCleared + 1
               /\ UNCHANGED <<currentPromoCode, sent>>
          ELSE /\ currentPromoCode' = NoCode
               /\ sent' = Append(sent, [result |-> "loss",
                                        eventId |-> createEventId])
               /\ UNCHANGED <<winTimer, winPending>>

\* endGame(outcome), up to the await inside handleLoss
endGame(out) ==
  /\ gameOver' = TRUE
  /\ isLocked' = TRUE
  /\ IF out.isDraw
     THEN \* handleDraw()
          /\ currentPromoCode' = NoCode
          /\ UNCHANGED <<winTimer, winPending, sent>>
     ELSE IF out.winner = "X"
          THEN /\ winTimer' = "live"
               /\ winPending' = WinPendingCleared + 1
               /\ UNCHANGED <<currentPromoCode, sent>>
          ELSE \* handleLoss()
               /\ currentPromoCode' = NoCode
               /\ sent' = Append(sent, [result |-> "loss",
                                        eventId |-> createEventId])
               /\ UNCHANGED <<winTimer, winPending>>

\* handleCellClick without the isLocked test
handleCellClickUnlocked(index) ==
  IF gameOver \/ Truthy(board[index])
  THEN UNCHANGED gameVars
  ELSE /\ board' = [board EXCEPT ![index] = "X"]
       /\ IF evaluateBoard(board') # NullOutcome
          THEN /\ endGame(evaluateBoard(board'))
               /\ UNCHANGED <<computerTimer, computerPending>>
          ELSE /\ queueComputerMove
               /\ UNCHANGED <<gameOver, currentPromoCode, winTimer,
                              winPending, sent>>
       /\ UNCHANGED <<difficulty, playerStarts, awaiting>>

\* handleCellClick(index)
handleCellClick(index) ==
  IF gameOver \/ isLocked \/ Truthy(board[index])
  THEN UNCHANGED gameVars
  ELSE /\ board' = [board EXCEPT ![index] = "X"]
       /\ IF evaluateBoard(board') # NullOutcome
          THEN /\ endGame(evaluateBoard(board'))
               /\ UNCHANGED <<computerTimer, computerPending>>
          ELSE /\ queueComputerMove
               /\ UNCHANGED <<gameOver, currentPromoCode, winTimer,
                              winPending, sent>>
       /\ UNCHANGED <<difficulty, playerStarts, awaiting>>

\* makeComputerMove without the assignment isLocked = false
makeComputerMoveLocked ==
  \E draw \in Draws(board, difficulty) :
    LET aiMove == getAiMove(board, difficulty, draw.lucky, draw.choice)
    IN /\ board' = IF aiMove # NullMove
                   THEN [board EXCEPT ![aiMove] = "O"] ELSE board
       /\ IF evaluateBoard(board') # NullOutcome
          THEN endGame(evaluateBoard(board'))
          ELSE /\ isLocked' = isLocked
               /\ UNCHANGED <<gameOver, currentPromoCode, winTimer,
                              winPending, sent>>

\* makeComputerMove()
makeComputerMove ==
  \E draw \in Draws(board, difficulty) :
    LET aiMove == getAiMove(board, difficulty, draw.lucky, draw.choice)
    IN /\ board' = IF aiMove # NullMove
                   THEN [board EXCEPT ![aiMove] = "O"] ELSE board
       /\ IF evaluateBoard(board') # NullOutcome
          THEN endGame(evaluateBoard(board'))
          ELSE /\ isLocked' = FALSE
               /\ UNCHANGED <<gameOver, currentPromoCode, winTimer,
                              winPending, sent>>

\* the timeout set by queueComputerMove fires and its callback runs
ComputerTimerFires ==
  /\ computerPending > 0
  /\ computerPending' = computerPending - 1
  /\ \/ computerTimer = "live" /\ computerTimer' = "stale"
     \/ /\ computerTimer # "live" \/ computerPending > 1
        /\ computerTimer' = computerTimer
  /\ IF ~gameOver
     THEN makeComputerMove
     ELSE UNCHANGED <<board, isLocked, gameOver, currentPromoCode, winTimer,
                      winPending, sent>>
  /\ UNCHANGED <<difficulty, playerStarts, awaiting>>

\* the timeout set by endGame fires: launchConfetti(), then handleWin() up to
\* its await
WinTimerFires ==
  /\ winPending > 0
  /\ winPending' = winPending - 1
  /\ \/ winTimer = "live" /\ winTimer' = "stale"
     \/ /\ winTimer # "live" \/ winPending > 1
        /\ winTimer' = winTimer
  /\ currentPromoCode' = NoCode
  /\ sent' = Append(sent, [result |-> "win", eventId |-> createEventId])
  /\ awaiting' = awaiting + 1
  /\ UNCHANGED <<board, isLocked, gameOver, difficulty, playerStarts,
                 computerTimer, computerPending>>

\* The rest of handleWin() once reportResult has settled: the second
\* setModalContent with data.code || '' when the response is ok (code is
\* NoCode for a body without code), the one of the catch block with ''
\* when the fetch fails or the response is not ok.
handleWinSettled(ok, code) ==
  /\ awaiting > 0
  /\ awaiting' = awaiting - 1
  /\ currentPromoCode' = IF ok THEN code ELSE NoCode
  /\ UNCHANGED <<board, isLocked, gameOver, difficulty, playerStarts,
                 computerTimer, computerPending, winTimer, winPending, sent>>

\* resetGame without the assignment of a new array to board
resetGameBoardKept ==
  /\ board' = board
  /\ gameOver' = FALSE
  /\ currentPromoCode' = NoCode
  /\ winTimer' = Null
  /\ winPending' = WinPendingCleared
  /\ IF playerStarts'
     THEN /\ isLocked' = FALSE
          /\ computerTimer' = Null
          /\ computerPending' = ComputerPendingCleared
     ELSE queueComputerMove
  /\ UNCHANGED <<sent, awaiting>>

\* resetGame without the call of clearComputerTimer
resetGameTimerKept ==
  /\ board' = EmptyBoard
  /\ gameOver' = FALSE
  /\ currentPromoCode' = NoCode
  /\ winTimer' = Null
  /\ winPending' = WinPendingCleared
  /\ IF playerStarts'
     THEN /\ isLocked' = FALSE
          /\ UNCHANGED <<computerTimer, computerPending>>
     ELSE queueComputerMove
  /\ UNCHANGED <<sent, awaiting>>

\* resetGame(), with the values board, timers and flags have after it
resetGame ==
  /\ board' = EmptyBoard
  /\ gameOver' = FALSE
  /\ currentPromoCode' = NoCode
  /\ winTimer' = Null
  /\ winPending' = WinPendingCleared
  /\ IF playerStarts'
     THEN /\ isLocked' = FALSE
          /\ computerTimer' = Null
          /\ computerPending' = ComputerPendingCleared
     ELSE queueComputerMove
  /\ UNCHANGED <<sent, awaiting>>

\* the reset and play-again buttons
ClickReset ==
  /\ playerStarts' = playerStarts
  /\ difficulty' = difficulty
  /\ resetGame

\* the change listener of the difficulty select
ChangeDifficulty(d) ==
  /\ difficulty' = d
  /\ playerStarts' = playerStarts
  /\ resetGame

\* the click listener of a starter button
SelectStarter(starts) ==
  /\ playerStarts' = starts
  /\ difficulty' = difficulty
  /\ resetGame

\* The state the script leaves when it has run: the let declarations, then
\* the resetGame() of its last line, for a difficulty and a starter.
GameInit(d, starts) ==
  /\ board = EmptyBoard
  /\ gameOver = FALSE
  /\ currentPromoCode = NoCode
  /\ difficulty = d
  /\ playerStarts = starts
  /\ isLocked = ~starts
  /\ computerTimer = IF starts THEN Null ELSE "live"
  /\ computerPending = IF starts THEN 0 ELSE 1
  /\ winTimer = Null
  /\ winPending = 0
  /\ sent = <<>>
  /\ awaiting = 0

(***************************************************************************)
(* Promo ledger, idempotency cache and result endpoint (server.js)         *)
(***************************************************************************)
PROMO_TTL_MS == 7 * 24 * 60 * 60 * 1000
SESSION_COOLDOWN_MS == 24 * 60 * 60 * 1000
EVENT_TTL_MS == 24 * 60 * 60 * 1000

\* crypto.randomInt(10000, 100000) draws from MinCode..(EndCode - 1)
MinCode == 10000
EndCode == 100000
\* the number of attempts of generateUniquePromoCode
MaxAttempts == 20

\* how many win reports are followed
MaxWins == 2
\* how many times the clock is advanced
MaxTicks == 2

\* String(n) for a number n >= 0: its decimal digits
RECURSIVE String(_)
String(n) == IF n < 10 THEN <<n>> ELSE Append(String(n \div 10), n % 10)

\* draws of a range that starts at a number of four digits
CodeDrawsFourDigits == {MinCode \div 10, EndCode - 1}

\* The draws followed: the least and the greatest number of the range.
\* String(code) is one-to-one, so a code is kept as the number drawn.
CodeDraws == {MinCode, EndCode - 1}

\* the amounts of time that pass between requests
TickSteps == {12 * 60 * 60 * 1000, 7 * 24 * 60 * 60 * 1000}

\* the values of the sid cookie (a request without one is given a new value)
Sessions == {"s1", "s2"}

\* eventId of a request body: absent, or a string of the length given
Absent == "absent"
EventIdLength ==
  [e \in {"evt-01", "ev-02", "evt-65"} |->
     CASE e = "evt-01" -> 6
       [] e = "ev-02"  -> 5
       [] e = "evt-65" -> 65]

EventIds == DOMAIN EventIdLength

\* The request bodies followed: each result of the enum without eventId and
\* with one of 6 characters, a result that is not of the enum, and a win with
\* an eventId of 5 and of 65 characters.
Bodies ==
  {[result |-> r, eventId |-> e] :
     r \in {"win", "loss", "draw"}, e \in {Absent, "evt-01"}}
  \cup {[result |-> "spin", eventId |-> Absent],
        [result |-> "win", eventId |-> "ev-02"],
        [result |-> "win", eventId |-> "evt-65"]}

\* a schema that puts no bound on the length of eventId
SchemaAcceptsAnyLength(result, eventId) ==
  result \in {"win", "loss", "draw"}

\* RESULT_SCHEMA.safeParse(req.body).success
SchemaAccepts(result, eventId) ==
  /\ result \in {"win", "loss", "draw"}
  /\ eventId # Absent =>
       (EventIdLength[eventId] >= 6 /\ EventIdLength[eventId] <= 64)

VARIABLES
  issuedBySession,  \* Map sessionId -> {code, createdAt}
  issuedCodes,      \* Map code -> {createdAt, sessionId, redeemed}
  processedEvents,  \* Map eventId -> {createdAt, response}
  now,              \* Date.now()
  ticks,            \* how many times the clock was advanced
  reply,            \* the last response sent: HTTP status and JSON body
  queued,           \* the text the last request handed to
                    \* sendTelegramMessage (NoMessage: none)
  order,            \* what the last request did to the outside, in order
  delivery,         \* the sendTelegramMessage call of the last request
  request,          \* the body of the request the last step handled, where
                    \* a specification observes it (NoRequest otherwise)
  log               \* the win reports handled so far, in order, each with
                    \* its response and the message it queued

serverVars == <<issuedBySession, issuedCodes, processedEvents, now, ticks,
                reply, queued, order, delivery, request, log>>

\* a loop that deletes an entry as soon as its age reaches ttl
pruneExpiredAtTtl(map, ttl, t) ==
  [key \in {k \in DOMAIN map : ~(t - map[k].createdAt >= ttl)} |-> map[key]]

\* a handler that does not call pruneExpired()
pruneExpiredSkipped(map, ttl, t) == map

\* One loop of pruneExpired(): the Map without the keys whose entry is older
\* than ttl at time t.
pruneExpired(map, ttl, t) ==
  [key \in {k \in DOMAIN map : ~(t - map[k].createdAt > ttl)} |-> map[key]]

\* map.set(key, value)
MapSet(map, key, value) ==
  [k \in DOMAIN map \cup {key} |-> IF k = key THEN value ELSE map[k]]

\* map.delete(key)
MapDelete(map, key) == [k \in DOMAIN map \ {key} |-> map[k]]

\* getSessionPromo with the cooldown test the wrong way round
getSessionPromoAfterCooldown(bySession, sessionId, t) ==
  IF sessionId \notin DOMAIN bySession
  THEN [code |-> NoCode, bySession |-> bySession]
  ELSE LET age == t - bySession[sessionId].createdAt
       IN IF age > PROMO_TTL_MS
          THEN [code |-> NoCode, bySession |-> MapDelete(bySession, sessionId)]
          ELSE IF age >= SESSION_COOLDOWN_MS
               THEN [code |-> bySession[sessionId].code,
                     bySession |-> bySession]
               ELSE [code |-> NoCode, bySession |-> bySession]

\* getSessionPromo comparing the age with the cooldown taken in seconds
getSessionPromoCooldownSeconds(bySession, sessionId, t) ==
  IF sessionId \notin DOMAIN bySession
  THEN [code |-> NoCode, bySession |-> bySession]
  ELSE LET age == t - bySession[sessionId].createdAt
       IN IF age > PROMO_TTL_MS
          THEN [code |-> NoCode, bySession |-> MapDelete(bySession, sessionId)]
          ELSE IF age < SESSION_COOLDOWN_MS \div 1000
               THEN [code |-> bySession[sessionId].code,
                     bySession |-> bySession]
               ELSE [code |-> NoCode, bySession |-> bySession]

\* getSessionPromo(sessionId): the code returned (NoCode for null) and
\* issuedBySession as the call leaves it
getSessionPromo(bySession, sessionId, t) ==
  IF sessionId \notin DOMAIN bySession
  THEN [code |-> NoCode, bySession |-> bySession]
  ELSE LET age == t - bySession[sessionId].createdAt
       IN IF age > PROMO_TTL_MS
          THEN [code |-> NoCode, bySession |-> MapDelete(bySession, sessionId)]
          ELSE IF age < SESSION_COOLDOWN_MS
               THEN [code |-> bySession[sessionId].code,
                     bySession |-> bySession]
               ELSE [code |-> NoCode, bySession |-> bySession]

\* the throw of generateUniquePromoCode
Exhausted == -1

\* generateUniquePromoCode returning its first draw unchecked
generateUniquePromoCodeFirstDraw(codes) == CodeDraws

\* generateUniquePromoCode(): what the loop can end with.  It returns the
\* first draw that is no key of issuedCodes, so any such code; it throws when
\* all MaxAttempts draws are keys of issuedCodes, which some sequence of
\* draws achieves whenever issuedCodes has a key.
generateUniquePromoCode(codes) ==
  {c \in CodeDraws : c \notin DOMAIN codes}
    \cup (IF DOMAIN codes # {} /\ MaxAttempts > 0 THEN {Exhausted} ELSE {})

OkBody(code) == [status |-> "ok", code |-> code]
ErrorBody(message) == [status |-> "error", message |-> message]

\* telegramMessage: null, the loss text, or the win text with its code
NoMessage == [text |-> "none", code |-> NoCode]
LossMessage == [text |-> "loss", code |-> NoCode]

\* the loss text for a draw as well
OtherMessageAlways(result) == LossMessage

\* telegramMessage of a request whose result is not 'win': the loss text
\* for 'loss', null for 'draw'
OtherMessage(result) == IF result = "loss" THEN LossMessage ELSE NoMessage

\* a win text that leaves the code out
WinMessageWithoutCode(code) == [text |-> "win", code |-> NoCode]

WinMessage(code) == [text |-> "win", code |-> code]

\* the log entry of one win report
Entry(sessionId, eventId, http, body, cached, minted, entryAt, message) ==
  [sessionId |-> sessionId, eventId |-> eventId, at |-> now, http |-> http,
   body |-> body, cached |-> cached, minted |-> minted, entryAt |-> entryAt,
   message |-> message]

\* entryAt of a report that no entry of processedEvents answered or recorded
NoEntry == -1

\* res.json(...) on a path that returns without reaching
\* queueTelegramMessage
Answer(http, body) ==
  /\ reply' = [http |-> http, body |-> body]
  /\ queued' = NoMessage
  /\ order' = <<"respond">>
  /\ delivery' = "none"

\* The end of the try block: res.json(responsePayload), then
\* queueTelegramMessage(telegramMessage), which starts sendTelegramMessage
\* unless the text is null.
AnswerAndQueue(body, message) ==
  /\ reply' = [http |-> 200, body |-> body]
  /\ queued' = message
  /\ order' = IF message = NoMessage
              THEN <<"respond">> ELSE <<"respond", "queue">>
  /\ delivery' = IF message = NoMessage THEN "none" ELSE "pending"

\* a catch block that records the error response under the eventId
CatchBlockStored(sessionId, eventId, events, codes, bySession) ==
  /\ Answer(500, ErrorBody("Internal error"))
  /\ issuedCodes' = codes
  /\ issuedBySession' = bySession
  /\ processedEvents' =
       IF eventId # Absent
       THEN [e \in DOMAIN events \cup {eventId} |->
               IF e = eventId
               THEN [createdAt |-> now,
                     response |-> ErrorBody("Internal error")]
               ELSE events[e]]
       ELSE events
  /\ log' = Append(log, Entry(sessionId, eventId, 500,
                              ErrorBody("Internal error"), FALSE, FALSE,
                              NoEntry, NoMessage))

\* The catch block, entered from the throw of generateUniquePromoCode: the
\* Maps are as they were when the try block was entered.
CatchBlock(sessionId, eventId, events, codes, bySession) ==
  /\ Answer(500, ErrorBody("Internal error"))
  /\ issuedCodes' = codes
  /\ issuedBySession' = bySession
  /\ processedEvents' = events
  /\ log' = Append(log, Entry(sessionId, eventId, 500,
                              ErrorBody("Internal error"), FALSE, FALSE,
                              NoEntry, NoMessage))

\* processedEvents.get(eventId) is truthy, eventId being truthy
IsCached(events, eventId) == eventId # Absent /\ eventId \in DOMAIN events

\* a handler that never records the response
StoreEventSkipped(events, eventId, t, response) == events

\* a handler that records the response without testing eventId
StoreEventUntested(events, eventId, t, response) ==
  MapSet(events, eventId, [createdAt |-> t, response |-> response])

\* if (eventId) processedEvents.set(eventId, {createdAt, response})
StoreEvent(events, eventId, t, response) ==
  IF eventId # Absent
  THEN MapSet(events, eventId, [createdAt |-> t, response |-> response])
  ELSE events

\* a win branch that records a new code under the session only
WinBranchSessionOnly(sessionId, eventId, events, codes, bySession) ==
  LET existing == getSessionPromo(bySession, sessionId, now)
      stored == IF eventId # Absent THEN now ELSE NoEntry
  IN IF existing.code # NoCode
     THEN /\ AnswerAndQueue(OkBody(existing.code), NoMessage)
          /\ issuedCodes' = codes
          /\ issuedBySession' = existing.bySession
          /\ processedEvents' =
               StoreEvent(events, eventId, now, OkBody(existing.code))
          /\ log' = Append(log, Entry(sessionId, eventId, 200,
                                      OkBody(existing.code), FALSE, FALSE,
                                      stored, NoMessage))
     ELSE \E code \in generateUniquePromoCode(codes) :
            IF code = Exhausted
            THEN CatchBlock(sessionId, eventId, events, codes,
                            existing.bySession)
            ELSE /\ AnswerAndQueue(OkBody(code), WinMessage(code))
                 /\ issuedCodes' = codes
                 /\ issuedBySession' =
                      MapSet(existing.bySession, sessionId,
                             [code |-> code, createdAt |-> now])
                 /\ processedEvents' =
                      StoreEvent(events, eventId, now, OkBody(code))
                 /\ log' = Append(log, Entry(sessionId, eventId, 200,
                                             OkBody(code), FALSE, TRUE,
                                             stored, WinMessage(code)))

\* a win branch that records a new code without the session it is issued to
WinBranchOwnerOmitted(sessionId, eventId, events, codes, bySession) ==
  LET existing == getSessionPromo(bySession, sessionId, now)
      stored == IF eventId # Absent THEN now ELSE NoEntry
  IN IF existing.code # NoCode
     THEN /\ AnswerAndQueue(OkBody(existing.code), NoMessage)
          /\ issuedCodes' = codes
          /\ issuedBySession' = existing.bySession
          /\ processedEvents' =
               StoreEvent(events, eventId, now, OkBody(existing.code))
          /\ log' = Append(log, Entry(sessionId, eventId, 200,
                                      OkBody(existing.code), FALSE, FALSE,
                                      stored, NoMessage))
     ELSE \E code \in generateUniquePromoCode(codes) :
            IF code = Exhausted
            THEN CatchBlock(sessionId, eventId, events, codes,
                            existing.bySession)
            ELSE /\ AnswerAndQueue(OkBody(code), WinMessage(code))
                 /\ issuedCodes' =
                      MapSet(codes, code,
                             [createdAt |-> now, sessionId |-> Absent,
                              redeemed |-> FALSE])
                 /\ issuedBySession' =
                      MapSet(existing.bySession, sessionId,
                             [code |-> code, createdAt |-> now])
                 /\ processedEvents' =
                      StoreEvent(events, eventId, now, OkBody(code))
                 /\ log' = Append(log, Entry(sessionId, eventId, 200,
                                             OkBody(code), FALSE, TRUE,
                                             stored, WinMessage(code)))

\* The win branch of the try block for a request that no cached entry
\* answered, on the Maps as pruneExpired left them.
WinBranch(sessionId, eventId, events, codes, bySession) ==
  LET existing == getSessionPromo(bySession, sessionId, now)
      stored == IF eventId # Absent THEN now ELSE NoEntry
  IN IF existing.code # NoCode
     THEN /\ AnswerAndQueue(OkBody(existing.code), NoMessage)
          /\ issuedCodes' = codes
          /\ issuedBySession' = existing.bySession
          /\ processedEvents' =
               StoreEvent(events, eventId, now, OkBody(existing.code))
          /\ log' = Append(log, Entry(sessionId, eventId, 200,
                                      OkBody(existing.code), FALSE, FALSE,
                                      stored, NoMessage))
     ELSE \E code \in generateUniquePromoCode(codes) :
            IF code = Exhausted
            THEN CatchBlock(sessionId, eventId, events, codes,
                            existing.bySession)
            ELSE /\ AnswerAndQueue(OkBody(code), WinMessage(code))
                 /\ issuedCodes' =
                      MapSet(codes, code,
                             [createdAt |-> now, sessionId |-> sessionId,
                              redeemed |-> FALSE])
                 /\ issuedBySession' =
                      MapSet(existing.bySession, sessionId,
                             [code |-> code, createdAt |-> now])
                 /\ processedEvents' =
                      StoreEvent(events, eventId, now, OkBody(code))
                 /\ log' = Append(log, Entry(sessionId, eventId, 200,
                                             OkBody(code), FALSE, TRUE,
                                             stored, WinMessage(code)))

\* app.post('/api/result') for a request of session sessionId with body
\* {result, eventId}.  Date.now() is one value throughout the handler.  The
\* response sent is reply; a win report is appended to log together with the
\* message it hands to queueTelegramMessage.
PostResult(sessionId, result, eventId) ==
  IF ~SchemaAccepts(result, eventId)
  THEN /\ Answer(400, ErrorBody("Invalid payload"))
       /\ UNCHANGED <<issuedBySession, issuedCodes, processedEvents, now,
                      ticks, log>>
  ELSE
    LET events == pruneExpired(processedEvents, EVENT_TTL_MS, now)
        codes == pruneExpired(issuedCodes, PROMO_TTL_MS, now)
        bySession == pruneExpired(issuedBySession, PROMO_TTL_MS, now)
    IN
    /\ result = "win" => Len(log) < MaxWins
    /\ UNCHANGED <<now, ticks>>
    /\ IF IsCached(events, eventId)
       THEN \* res.json(cached.response)
            /\ Answer(200, events[eventId].response)
            /\ processedEvents' = events
            /\ issuedCodes' = codes
            /\ issuedBySession' = bySession
            /\ log' = IF result = "win"
                      THEN Append(log, Entry(sessionId, eventId, 200,
                                             events[eventId].response, TRUE,
                                             FALSE,
                                             events[eventId].createdAt,
                                             NoMessage))
                      ELSE log
       ELSE IF result = "win"
       THEN WinBranch(sessionId, eventId, events, codes, bySession)
       ELSE \* 'loss' (telegramMessage 'проигрыш') and 'draw' (null)
            /\ AnswerAndQueue(OkBody(NoCode), OtherMessage(result))
            /\ issuedCodes' = codes
            /\ issuedBySession' = bySession
            /\ processedEvents' =
                 StoreEvent(events, eventId, now, OkBody(NoCode))
            /\ log' = log

\* time passes between two requests
Tick(step) ==
  /\ ticks < MaxTicks
  /\ ticks' = ticks + 1
  /\ now' = now + step
  /\ UNCHANGED <<issuedBySession, issuedCodes, processedEvents, reply,
                 queued, order, delivery, log>>

\* a rejection of sendTelegramMessage that reaches the handler's response
SettleFailureAnswered(result) ==
  /\ delivery = "pending"
  /\ delivery' = result
  /\ reply' = IF result \in {"failed", "aborted"}
              THEN [http |-> 500, body |-> ErrorBody("Internal error")]
              ELSE reply
  /\ UNCHANGED <<issuedBySession, issuedCodes, processedEvents, now, ticks,
                 queued, order, log>>

\* The sendTelegramMessage call of the last request ends: skipped (no token
\* or chat id), delivered, failed (fetch rejects or the answer is not ok) or
\* aborted by the 4500 ms timeout.  The catch of queueTelegramMessage only
\* logs.
Settle(result) ==
  /\ delivery = "pending"
  /\ delivery' = result
  /\ UNCHANGED <<issuedBySession, issuedCodes, processedEvents, now, ticks,
                 reply, queued, order, log>>

DeliveryResults == {"skipped", "delivered", "failed", "aborted"}

\* request where no specification observes the body
NoRequest == [result |-> "none", eventId |-> Absent]

\* the three Maps as new Map() leaves them, nothing sent yet
ServerInit ==
  /\ issuedBySession = <<>>
  /\ issuedCodes = <<>>
  /\ processedEvents = <<>>
  /\ now = 0
  /\ ticks = 0
  /\ reply = [http |-> 0, body |-> ErrorBody("none")]
  /\ queued = NoMessage
  /\ order = <<>>
  /\ delivery = "none"
  /\ request = NoRequest
  /\ log = <<>>

VARIABLES
  clicked,      \* the cell whose click the last step handled, where a
                \* specification observes it (NoClick otherwise)
  game,         \* the number of the game being played: one more than the
                \* resets so far
  reportGames,  \* for each entry of sent, the number of the game during
                \* which it was sent
  resetFrom     \* gameOver and the number of pending computer-move timeouts
                \* as the last resetGame() found them, where a specification
                \* observes it (NoReset otherwise)

observed == <<clicked, game, reportGames, resetFrom>>

NoClick == -1

\* resetFrom before the first reset
NoReset == [over |-> FALSE, pending |-> -1]

ObservedInit ==
  /\ clicked = NoClick
  /\ game = 1
  /\ reportGames = <<>>
  /\ resetFrom = NoReset

vars == <<callVars, gameVars, serverVars, observed>>

InitServer ==
  /\ CallInitNone
  /\ GameInit("normal", TRUE)
  /\ ServerInit
  /\ ObservedInit

\* The bodies that pass validation.  A rejected request changes nothing but
\* the response; SpecFrame follows those.
AcceptedBodies == {b \in Bodies : SchemaAccepts(b.result, b.eventId)}

NextServer ==
  \/ \E sessionId \in Sessions, body \in AcceptedBodies :
       /\ PostResult(sessionId, body.result, body.eventId)
       /\ UNCHANGED <<request, callVars, gameVars, observed>>
  \/ \E step \in TickSteps :
       Tick(step) /\ UNCHANGED <<request, callVars, gameVars, observed>>

SpecServer == InitServer /\ [][NextServer]_vars

\* The endpoint with the body of each request observed, for the requests of
\* one session.
NextFrame ==
  \/ \E body \in Bodies :
       /\ PostResult("s1", body.result, body.eventId)
       /\ request' = body
       /\ UNCHANGED <<callVars, gameVars, observed>>
  \/ \E step \in TickSteps :
       Tick(step) /\ request' = NoRequest /\ UNCHANGED <<callVars, gameVars, observed>>

SpecFrame == InitServer /\ [][NextFrame]_vars

\* The endpoint with the notification of the last request ending in each
\* way, the clock standing still.
NextNotify ==
  \/ \E sessionId \in Sessions, body \in Bodies :
       /\ PostResult(sessionId, body.result, body.eventId)
       /\ UNCHANGED <<request, callVars, gameVars, observed>>
  \/ \E result \in DeliveryResults :
       Settle(result) /\ UNCHANGED <<request, callVars, gameVars, observed>>

SpecNotify == InitServer /\ [][NextNotify]_vars

\* The bodies that can bring a code into a response or meet one: win and
\* loss reports.  A draw report differs from a loss report in telegramMessage
\* only.
OwnerBodies == {b \in AcceptedBodies : b.result # "draw"}

\* The endpoint with each request observed together with the session that
\* sent it: request' is the body and the value of the sid cookie.
NextOwner ==
  \/ \E sessionId \in Sessions, body \in OwnerBodies :
       /\ PostResult(sessionId, body.result, body.eventId)
       /\ request' = [result |-> body.result, eventId |-> body.eventId,
                      sessionId |-> sessionId]
       /\ UNCHANGED <<callVars, gameVars, observed>>
  \/ \E step \in TickSteps :
       Tick(step) /\ request' = NoRequest /\ UNCHANGED <<callVars, gameVars, observed>>

SpecOwner == InitServer /\ [][NextOwner]_vars

\* evaluateBoard on every board over {null, 'X', 'O'}
InitEval ==
  /\ argBoard \in AllBoards
  /\ argDifficulty = "normal"
  /\ called = "none"
  /\ outcome = NullOutcome
  /\ move = NullMove
  /\ argSearch = NoSearch
  /\ score = NoScore
  /\ GameInit("normal", TRUE)
  /\ ServerInit
  /\ ObservedInit

SpecEval == InitEval /\ [][CallEvaluateBoard /\ UNCHANGED <<gameVars, serverVars, observed>>]_vars

\* scoreBoard on every board over {null, 'X', 'O'}
InitScore ==
  /\ argBoard \in AllBoards
  /\ argDifficulty = "normal"
  /\ called = "none"
  /\ outcome = NullOutcome
  /\ move = NullMove
  /\ argSearch = NoSearch
  /\ score = NoScore
  /\ GameInit("normal", TRUE)
  /\ ServerInit
  /\ ObservedInit

SpecScore == InitScore /\ [][CallScoreBoard /\ UNCHANGED <<gameVars, serverVars, observed>>]_vars

\* the largest number of empty cells of the boards minimax is called on
MaxEmptyCap == 3
\* the largest depth minimax is called with
MaxDepth == 4

\* minimax with depth cap 3 and without cap, for either side to move, at
\* each depth up to MaxDepth, on the boards, terminal or not, whose numbers
\* of 'X' and 'O' differ by at most one
InitMinimax ==
  /\ argBoard \in {b \in AllBoards :
                     /\ CountMark(b, Null) <= MaxEmptyCap
                     /\ CountMark(b, "X") - CountMark(b, "O") \in {-1, 0, 1}}
  /\ argSearch \in [depth : 0..MaxDepth, isMaximizing : BOOLEAN,
                    maxDepth : {3, NullDepth}]
  /\ argDifficulty = "normal"
  /\ called = "none"
  /\ outcome = NullOutcome
  /\ move = NullMove
  /\ score = NoScore
  /\ GameInit("normal", TRUE)
  /\ ServerInit
  /\ ObservedInit

SpecMinimax == InitMinimax /\ [][CallMinimax /\ UNCHANGED <<gameVars, serverVars, observed>>]_vars

\* the largest number of empty cells of the arrays the search is run on
MaxEmptyInPlace == 3

\* getBestMove and minimax run on the array they are given, with depth cap 1
\* or 3 and without cap, minimax entered at depth 0, on the boards, terminal
\* or not, whose empty cells are null and whose numbers of 'X' and 'O'
\* differ by at most one
InitInPlace ==
  /\ argBoard \in {b \in AllBoards :
                     /\ CountMark(b, Null) <= MaxEmptyInPlace
                     /\ CountMark(b, "X") - CountMark(b, "O") \in {-1, 0, 1}}
  /\ argSearch \in [depth : {0}, isMaximizing : BOOLEAN,
                    maxDepth : {1, 3, NullDepth}]
  /\ argDifficulty = "normal"
  /\ called = "none"
  /\ outcome = NullOutcome
  /\ move = NullMove
  /\ score = NoScore
  /\ GameInit("normal", TRUE)
  /\ ServerInit
  /\ ObservedInit

NextInPlace ==
  \/ CallGetBestMoveInPlace /\ UNCHANGED <<gameVars, serverVars, observed>>
  \/ CallMinimaxInPlace /\ UNCHANGED <<gameVars, serverVars, observed>>

SpecInPlace == InitInPlace /\ [][NextInPlace]_vars

\* the largest number of empty cells of the boards getBestMove is called on
MaxEmptySearch == 6
\* the largest number of empty cells of the boards getAiMove is called on
MaxEmptyAi == 4

\* getBestMove, with the depth cap of normal and of hard, on the boards where
\* the computer is to move
InitBest ==
  /\ argBoard \in {b \in ComputerToMoveBoards :
                     CountMark(b, Null) <= MaxEmptySearch}
  /\ argDifficulty \in {"normal", "hard"}
  /\ called = "none"
  /\ outcome = NullOutcome
  /\ move = NullMove
  /\ argSearch = NoSearch
  /\ score = NoScore
  /\ GameInit("normal", TRUE)
  /\ ServerInit
  /\ ObservedInit

SpecBest == InitBest /\ [][CallGetBestMove /\ UNCHANGED <<gameVars, serverVars, observed>>]_vars

\* getAiMove on every board over {null, 'X', 'O'}, for every difficulty
InitAi ==
  /\ argBoard \in {b \in AllBoards : CountMark(b, Null) <= MaxEmptyAi}
  /\ argDifficulty \in Difficulties
  /\ called = "none"
  /\ outcome = NullOutcome
  /\ move = NullMove
  /\ argSearch = NoSearch
  /\ score = NoScore
  /\ GameInit("normal", TRUE)
  /\ ServerInit
  /\ ObservedInit

SpecAi == InitAi /\ [][CallGetAiMove /\ UNCHANGED <<gameVars, serverVars, observed>>]_vars

\* One game on hard, for either starter: the clicks of the player and the
\* computer's think-delay timer.
InitHard ==
  /\ CallInitNone
  /\ \E starts \in BOOLEAN : GameInit("hard", starts)
  /\ ServerInit
  /\ ObservedInit

NextHard ==
  \/ \E index \in Cells :
       handleCellClick(index) /\ UNCHANGED <<callVars, serverVars, observed>>
  \/ ComputerTimerFires /\ UNCHANGED <<callVars, serverVars, observed>>

SpecHard == InitHard /\ [][NextHard]_vars

\* how many games are followed
MaxGames == 2

\* the number of the game during which each report was sent
Observe ==
  reportGames' = IF Len(sent') > Len(sent)
                 THEN Append(reportGames, game) ELSE reportGames

\* Games on easy, for either starter, one after the other: the clicks on
\* cells, the two timeouts, and the buttons that reset the game.
InitGame ==
  /\ CallInitNone
  /\ \E starts \in BOOLEAN : GameInit("easy", starts)
  /\ ServerInit
  /\ ObservedInit

CellClicked ==
  \E index \in Cells :
    /\ handleCellClick(index)
    /\ Observe
    /\ UNCHANGED <<clicked, game, resetFrom, callVars, serverVars>>

ComputerMoves ==
  /\ ComputerTimerFires
  /\ Observe
  /\ UNCHANGED <<clicked, game, resetFrom, callVars, serverVars>>

WinShown ==
  /\ WinTimerFires
  /\ Observe
  /\ UNCHANGED <<clicked, game, resetFrom, callVars, serverVars>>

GameReset ==
  /\ game < MaxGames
  /\ \/ ClickReset
     \/ \E starts \in BOOLEAN : SelectStarter(starts)
  /\ game' = game + 1
  /\ Observe
  /\ UNCHANGED <<clicked, resetFrom, callVars, serverVars>>

NextGame == CellClicked \/ ComputerMoves \/ WinShown \/ GameReset

\* the timeout endGame sets fires unless it is cleared
SpecGame ==
  /\ InitGame
  /\ [][NextGame]_vars
  /\ WF_vars(WinShown)

\* the code of the body reportResult resolves with: none, or a code issued
ResponseCodes == {NoCode} \cup CodeDraws

\* the response to a win report arrives, or its fetch fails
WinAnswered ==
  /\ \E ok \in BOOLEAN, code \in ResponseCodes : handleWinSettled(ok, code)
  /\ Observe
  /\ UNCHANGED <<clicked, game, resetFrom, callVars, serverVars>>

\* Games on easy as in SpecGame, together with the responses to the win
\* reports, each arriving at any moment after its report was sent.
NextPromo ==
  CellClicked \/ ComputerMoves \/ WinShown \/ GameReset \/ WinAnswered

SpecPromo == InitGame /\ [][NextPromo]_vars

\* One game on easy with the cell of each click observed.
NextClicks ==
  \/ \E index \in Cells :
       /\ handleCellClick(index)
       /\ clicked' = index
       /\ UNCHANGED <<game, reportGames, resetFrom, callVars, serverVars>>
  \/ /\ ComputerTimerFires \/ WinTimerFires
     /\ clicked' = NoClick
     /\ UNCHANGED <<game, reportGames, resetFrom, callVars, serverVars>>

SpecClicks == InitGame /\ [][NextClicks]_vars

\* One game on easy, for either starter, without a reset, played to its end.
NextPlay == CellClicked \/ ComputerMoves \/ WinShown

\* The player clicks an empty cell whenever the board stays unlocked, and a
\* timeout that is set fires: ComputerMoves is enabled exactly while
\* computerPending > 0 and each of its steps takes the count to 0, so its
\* weak fairness amounts to the count being 0 again and again.
SpecPlay ==
  /\ InitGame
  /\ [][NextPlay]_vars
  /\ WF_vars(CellClicked)
  /\ []<>(computerPending = 0)

\* Games on easy, for either starter, with what each reset interrupts
\* observed: the clicks on cells, the computer's timeout, and the reset
\* button and the starter buttons pressed at any moment.  The win timeout,
\* whose callback assigns neither board nor isLocked nor gameOver, is
\* followed by SpecGame.
NextReset ==
  \/ \E index \in Cells :
       handleCellClick(index) /\ UNCHANGED <<callVars, serverVars, observed>>
  \/ ComputerTimerFires /\ UNCHANGED <<callVars, serverVars, observed>>
  \/ /\ game < MaxGames
     /\ \/ ClickReset
        \/ \E starts \in BOOLEAN : SelectStarter(starts)
     /\ game' = game + 1
     /\ resetFrom' = [over |-> gameOver, pending |-> computerPending]
     /\ UNCHANGED <<clicked, reportGames, callVars, serverVars>>

SpecReset == InitGame /\ [][NextReset]_vars

(***************************************************************************)
(* Properties of evaluateBoard (SpecEval)                                  *)
(***************************************************************************)
DrawOutcome == [winner |-> Null, combo |-> NullCombo, isDraw |-> TRUE]

Evaluated == called = "evaluateBoard"

\* C5 as stated: for every board and every line holding three times the
\* same mark, evaluateBoard returns that mark as winner, that exact line as
\* combo and isDraw false.
C5_EveryCompleteLineReturned ==
  Evaluated =>
    \A k \in LineNumbers :
      Complete(argBoard, k) =>
        /\ outcome # NullOutcome
        /\ outcome.isDraw = FALSE
        /\ outcome.winner = argBoard[winningCombos[k][1]]
        /\ outcome.combo = winningCombos[k]

\* C5 amended: for every board and every line holding three times the same
\* mark, evaluateBoard returns isDraw false with the winner and combo of a
\* line that holds three times the same mark; they are that line's mark and
\* that exact line whenever no line earlier in the fixed order is complete.
C5_CompleteLineReturned ==
  Evaluated =>
    \A k \in LineNumbers :
      Complete(argBoard, k) =>
        /\ outcome # NullOutcome
        /\ outcome.isDraw = FALSE
        /\ \E j \in LineNumbers :
             /\ Complete(argBoard, j)
             /\ outcome.winner = argBoard[winningCombos[j][1]]
             /\ outcome.combo = winningCombos[j]
        /\ (\A j \in 1..(k - 1) : ~Complete(argBoard, j)) =>
             /\ outcome.winner = argBoard[winningCombos[k][1]]
             /\ outcome.combo = winningCombos[k]

\* a board with a single complete line, the last diagonal, has been evaluated
C5_Witness ==
  /\ Evaluated
  /\ Complete(argBoard, 8)
  /\ \A j \in 1..7 : ~Complete(argBoard, j)
  /\ outcome # NullOutcome
  /\ outcome.combo = <<2, 4, 6>>

\* C6: a filled board without a complete line evaluates to the draw outcome
\* (winner null, combo null, isDraw true); a filled board with a complete
\* line evaluates to a win, never to a draw.
C6_FilledBoard ==
  (Evaluated /\ Filled(argBoard)) =>
    /\ ~HasLine(argBoard) => outcome = DrawOutcome
    /\ HasLine(argBoard) =>
         /\ outcome # NullOutcome
         /\ outcome.isDraw = FALSE
         /\ outcome.winner \in Marks
         /\ outcome.combo # NullCombo

\* a filled board with a complete line has been evaluated (to a win)
C6_Witness ==
  /\ Evaluated
  /\ Filled(argBoard)
  /\ HasLine(argBoard)
  /\ outcome # NullOutcome
  /\ outcome.isDraw = FALSE

\* C7: a board with an empty cell and no complete line evaluates to null,
\* which is not the draw outcome.
C7_Ongoing ==
  (Evaluated /\ ~Filled(argBoard) /\ ~HasLine(argBoard)) =>
    /\ outcome = NullOutcome
    /\ outcome # DrawOutcome

\* a board with marks, an empty cell and no complete line has been evaluated
C7_Witness ==
  /\ Evaluated
  /\ ~Filled(argBoard)
  /\ ~HasLine(argBoard)
  /\ CountMark(argBoard, "X") = 4
  /\ CountMark(argBoard, "O") = 4
  /\ outcome = NullOutcome

(***************************************************************************)
(* Properties of getBestMove (SpecBest) and getAiMove (SpecAi)             *)
(***************************************************************************)
\* placing mark on the empty cell i of b completes a line
CompletesLine(b, i, mark) ==
  /\ b[i] = Null
  /\ \E k \in LineNumbers : Complete([b EXCEPT ![i] = mark], k)

TestBoardWin ==
  [i \in Cells |-> IF i \in {0, 1} THEN "O" ELSE IF i \in {3, 4} THEN "X"
                   ELSE Null]

TestBoardBlock ==
  [i \in Cells |-> IF i \in {0, 1} THEN "X" ELSE IF i = 4 THEN "O" ELSE Null]

\* C8: on a board of an ongoing game with the computer to move where some
\* empty cell completes a line of three 'O', getBestMove returns a cell that
\* completes a line of three 'O', without depth cap and with depth cap 3; it
\* returns 2 on ['O','O',null,'X','X',null,null,null,null].
C8_TakesImmediateWin ==
  called = "getBestMove" =>
    /\ (\E i \in Cells : CompletesLine(argBoard, i, "O")) =>
         /\ move \in Cells
         /\ CompletesLine(argBoard, move, "O")
    /\ argBoard = TestBoardWin => move = 2

\* getBestMove with depth cap 3 took a win on a board where a lower-indexed
\* empty cell does not win
C8_Witness ==
  /\ called = "getBestMove"
  /\ argDifficulty = "normal"
  /\ move \in Cells
  /\ CompletesLine(argBoard, move, "O")
  /\ \E i \in 0..(move - 1) :
       argBoard[i] = Null /\ ~CompletesLine(argBoard, i, "O")

\* C9: on a board of an ongoing game with the computer to move where no empty
\* cell completes a line of three 'O' and exactly one empty cell completes a
\* line of three 'X', getBestMove returns that cell, without depth cap and
\* with depth cap 3; it returns 2 on ['X','X',null,null,'O',null,null,null,
\* null].
C9_BlocksImmediateLoss ==
  called = "getBestMove" =>
    /\ \A i \in Cells :
         ( /\ \A j \in Cells : ~CompletesLine(argBoard, j, "O")
           /\ CompletesLine(argBoard, i, "X")
           /\ \A j \in Cells \ {i} : ~CompletesLine(argBoard, j, "X") )
         => move = i
    /\ argBoard = TestBoardBlock => move = 2

\* getBestMove with depth cap 3 blocked the only threat, which is not the
\* first empty cell
C9_Witness ==
  /\ called = "getBestMove"
  /\ argDifficulty = "normal"
  /\ \A j \in Cells : ~CompletesLine(argBoard, j, "O")
  /\ move \in Cells
  /\ CompletesLine(argBoard, move, "X")
  /\ \A j \in Cells \ {move} : ~CompletesLine(argBoard, j, "X")
  /\ \E i \in 0..(move - 1) : argBoard[i] = Null

\* C10: for every board, difficulty and random draw, getAiMove returns the
\* index of an empty cell of the board when there is one, and null exactly
\* when the board has no empty cell.
C10_MoveIsEmptyCell ==
  called = "getAiMove" =>
    /\ (\E i \in Cells : argBoard[i] = Null) =>
         (move \in Cells /\ argBoard[move] = Null)
    /\ (move = NullMove) <=> (\A i \in Cells : argBoard[i] # Null)

\* the blunder path of easy returned an empty cell that is not the first one
C10_Witness ==
  /\ called = "getAiMove"
  /\ argDifficulty = "easy"
  /\ move \in Cells
  /\ argBoard[move] = Null
  /\ move # getBestMove(argBoard, NullDepth)
  /\ \E i \in 0..(move - 1) : argBoard[i] = Null

(***************************************************************************)
(* Properties of a game on hard (SpecHard)                                 *)
(***************************************************************************)
\* C1: in a game on hard, for either starter and every sequence of player
\* moves, no board is reached on which 'X' holds a complete line.
C1_HardNeverLoses ==
  difficulty = "hard" =>
    ~\E k \in LineNumbers :
       Complete(board, k) /\ board[winningCombos[k][1]] = "X"

\* a game the player started has ended with the computer's line after the
\* computer had to answer four player moves
C1_Witness ==
  /\ difficulty = "hard"
  /\ playerStarts
  /\ gameOver
  /\ CountMark(board, "X") = 4
  /\ \E k \in LineNumbers :
       Complete(board, k) /\ board[winningCombos[k][1]] = "O"

(***************************************************************************)
(* Properties of the result endpoint (SpecServer)                          *)
(***************************************************************************)
WinReports == 1..Len(log)

\* the two reports carry the same eventId and both were answered status ok
SameEventOk(i, j) ==
  /\ i < j
  /\ log[i].eventId # Absent
  /\ log[i].eventId = log[j].eventId
  /\ log[i].http = 200
  /\ log[j].http = 200

\* C2 as stated: any two win reports answered ok that carry the same eventId
\* receive identical payloads and together mint at most one code, however
\* much time lies between them.
C2_SameEventSameResponse ==
  \A i, j \in WinReports :
    SameEventOk(i, j) =>
      /\ log[i].body = log[j].body
      /\ ~(log[i].minted /\ log[j].minted)

\* C2: two win reports answered ok that carry the same eventId, the later
\* one arriving no more than EVENT_TTL_MS after the processedEvents entry
\* that answered or recorded the earlier one was stored, receive identical
\* payloads, and at most one of them mints a code.
C2_SameEventSameResponseWhileRetained ==
  \A i, j \in WinReports :
    (SameEventOk(i, j) /\ log[j].at - log[i].entryAt <= EVENT_TTL_MS) =>
      /\ log[i].body = log[j].body
      /\ ~(log[i].minted /\ log[j].minted)

\* a win report that minted a code, repeated later by the other session with
\* the same eventId and answered from processedEvents
C2_Witness ==
  \E i, j \in WinReports :
    /\ SameEventOk(i, j)
    /\ log[i].minted
    /\ log[j].cached
    /\ log[j].at > log[i].at
    /\ log[j].sessionId # log[i].sessionId
    /\ log[j].body = log[i].body

\* report k minted the code of the session of reports i and j, which were
\* made less than the cooldown window after it (i may be k itself)
WithinCooldownOf(k, i, j) ==
  /\ k <= i
  /\ i < j
  /\ log[k].minted
  /\ log[i].sessionId = log[k].sessionId
  /\ log[j].sessionId = log[k].sessionId
  /\ log[i].at - log[k].at < SESSION_COOLDOWN_MS
  /\ log[j].at - log[k].at < SESSION_COOLDOWN_MS

\* reports i and j return the code report k minted, and the session mints no
\* code after k up to j
SameCodeNoMint(k, i, j) ==
  /\ log[i].body = OkBody(log[k].body.code)
  /\ log[j].body = OkBody(log[k].body.code)
  /\ \A l \in WinReports :
       (k < l /\ l <= j /\ log[l].sessionId = log[k].sessionId)
         => ~log[l].minted

\* C3 as stated: any two win reports of a session made less than the
\* cooldown window after its code was issued return that code, and the
\* session mints no code in between.
C3_SameCodeWithinCooldown ==
  \A k, i, j \in WinReports :
    WithinCooldownOf(k, i, j) => SameCodeNoMint(k, i, j)

\* C3: any two win reports of a session that are made less than the cooldown
\* window after its code was issued and are not answered from
\* processedEvents return that code, and the session mints no code in
\* between.
C3_SameCodeWithinCooldownUncached ==
  \A k, i, j \in WinReports :
    (WithinCooldownOf(k, i, j) /\ ~log[i].cached /\ ~log[j].cached)
      => SameCodeNoMint(k, i, j)

\* a session is issued a code and reports a win again, later but within the
\* cooldown window, the report being handled by the ledger
C3_Witness ==
  \E k, j \in WinReports :
    /\ WithinCooldownOf(k, k, j)
    /\ ~log[j].cached
    /\ log[j].at > log[k].at
    /\ log[j].body = log[k].body

\* no two sessions of issuedBySession hold the same code
NoSharedCode ==
  \A s, t \in DOMAIN issuedBySession :
    s # t => issuedBySession[s].code # issuedBySession[t].code

\* the step appends a win report that minted a code
Mints ==
  /\ Len(log') = Len(log) + 1
  /\ log'[Len(log')].minted

\* the keys issuedCodes has at the moment of minting, pruneExpired() done
KeysAtMinting ==
  {c \in DOMAIN issuedCodes : now - issuedCodes[c].createdAt <= PROMO_TTL_MS}

\* C4: a code newly minted is no key of issuedCodes at the moment of
\* minting, and in every reachable state no two sessions of issuedBySession
\* hold the same code.
C4_CodeUniqueness ==
  /\ [][Mints => log'[Len(log')].body.code \notin KeysAtMinting]_vars
  /\ []NoSharedCode

\* two sessions each hold a code, the later one minted while the earlier
\* was a key of issuedCodes
C4_Witness ==
  \E i, j \in WinReports :
    /\ i < j
    /\ log[i].minted
    /\ log[j].minted
    /\ log[i].sessionId # log[j].sessionId
    /\ {log[i].sessionId, log[j].sessionId} \subseteq DOMAIN issuedBySession
    /\ log[i].body.code \in DOMAIN issuedCodes
    /\ log[j].at - log[i].at <= PROMO_TTL_MS

\* the body carries a code of five digits that denotes 10000..99999
HasFiveDigitCode(body) ==
  /\ body.code # NoCode
  /\ Len(String(body.code)) = 5
  /\ body.code >= 10000
  /\ body.code <= 99999

\* C11 as stated: every status ok response to a win report carries a code of
\* five digits, 10000 to 99999.
C11_OkWinHasCode ==
  \A i \in WinReports : log[i].http = 200 => HasFiveDigitCode(log[i].body)

\* C11: every status ok response to a win report that is not answered from
\* processedEvents carries a code of five digits, 10000 to 99999.
C11_OkWinHasCodeUncached ==
  \A i \in WinReports :
    (log[i].http = 200 /\ ~log[i].cached) => HasFiveDigitCode(log[i].body)

\* one win report answered with a minted code and one with the code reused
C11_Witness ==
  \E i, j \in WinReports :
    /\ log[i].minted
    /\ log[j].http = 200 /\ ~log[j].cached /\ ~log[j].minted
    /\ HasFiveDigitCode(log[i].body)
    /\ log[j].body = log[i].body

Handles == request' # NoRequest

\* the body passes validation: result of the enum, eventId absent or of 6
\* to 64 characters
WellFormed(body) ==
  /\ body.result \in {"win", "loss", "draw"}
  /\ body.eventId = Absent
       \/ (EventIdLength[body.eventId] >= 6 /\ EventIdLength[body.eventId] <= 64)

\* processedEvents holds an entry for the eventId of the body that is not
\* older than 24 hours when the request arrives
Replayable(body) ==
  /\ body.eventId # Absent
  /\ body.eventId \in DOMAIN processedEvents
  /\ now - processedEvents[body.eventId].createdAt <= 24 * 60 * 60 * 1000

\* the step adds no entry to the Map and changes or re-stamps none
SessionsKept ==
  \A s \in DOMAIN issuedBySession' :
    s \in DOMAIN issuedBySession /\ issuedBySession'[s] = issuedBySession[s]

CodesKept ==
  \A c \in DOMAIN issuedCodes' :
    c \in DOMAIN issuedCodes /\ issuedCodes'[c] = issuedCodes[c]

EventsKept ==
  \A e \in DOMAIN processedEvents' :
    e \in DOMAIN processedEvents /\ processedEvents'[e] = processedEvents[e]

\* what a loss or draw request that runs the result logic returns and queues
LossOrDrawLogic ==
  /\ reply' = [http |-> 200, body |-> [status |-> "ok", code |-> NoCode]]
  /\ request'.result = "loss" => queued' = [text |-> "loss", code |-> NoCode]
  /\ request'.result = "draw" => queued' = [text |-> "none", code |-> NoCode]

\* C13 as stated: an accepted loss or draw request adds, changes or
\* re-stamps no entry of issuedBySession or issuedCodes, returns a response
\* without a code, and queues the loss text for loss and nothing for draw.
C13_LossDrawNoLedgerNoCode ==
  [][(Handles /\ WellFormed(request')
        /\ request'.result \in {"loss", "draw"})
       => (SessionsKept /\ CodesKept /\ LossOrDrawLogic)]_vars

\* C13: an accepted loss or draw request adds, changes or re-stamps no entry
\* of issuedBySession or issuedCodes; unless it is answered from
\* processedEvents it returns a response without a code and queues the loss
\* text for loss and nothing for draw; answered from processedEvents it
\* queues nothing.
C13_LossDrawNoLedger ==
  [][(Handles /\ WellFormed(request')
        /\ request'.result \in {"loss", "draw"})
       => /\ SessionsKept /\ CodesKept
          /\ ~Replayable(request') => LossOrDrawLogic
          /\ Replayable(request')
               => queued' = [text |-> "none", code |-> NoCode]]_vars

\* a loss request was handled by the logic while the session held a code
C13_Witness ==
  /\ request = [result |-> "loss", eventId |-> Absent]
  /\ queued = [text |-> "loss", code |-> NoCode]
  /\ reply.body.code = NoCode
  /\ DOMAIN issuedBySession # {}
  /\ DOMAIN issuedCodes # {}

\* C14: a request whose result is not of the enum, or whose eventId is
\* present and shorter than 6 or longer than 64 characters, is answered 400
\* invalid payload, leaves the three Maps as they were, expired entries
\* included, and queues nothing.
C14_InvalidPayloadRejected ==
  [][(Handles /\ ~WellFormed(request'))
       => /\ reply' = [http |-> 400,
                       body |-> [status |-> "error",
                                 message |-> "Invalid payload"]]
          /\ UNCHANGED <<issuedBySession, issuedCodes, processedEvents>>
          /\ queued' = [text |-> "none", code |-> NoCode]
          /\ delivery' = "none"]_vars

\* a win request with an eventId of 65 characters was rejected while
\* processedEvents held an entry older than its retention
C14_Witness ==
  /\ request = [result |-> "win", eventId |-> "evt-65"]
  /\ reply.http = 400
  /\ \E e \in DOMAIN processedEvents :
       now - processedEvents[e].createdAt > EVENT_TTL_MS

\* C15: a win request that ends with the server error of code exhaustion
\* adds nothing to issuedBySession, issuedCodes or processedEvents, queues
\* nothing, and leaves no entry under its eventId, so that a retry with the
\* eventId runs the ledger logic again.
C15_ExhaustionLeavesNoState ==
  [][(Handles /\ reply'.http = 500)
       => /\ request'.result = "win"
          /\ DOMAIN issuedCodes # {}
          /\ SessionsKept /\ CodesKept /\ EventsKept
          /\ queued' = [text |-> "none", code |-> NoCode]
          /\ request'.eventId \notin DOMAIN processedEvents']_vars

\* a win request carrying an eventId ended with the server error
C15_Witness ==
  /\ request = [result |-> "win", eventId |-> "evt-01"]
  /\ reply.http = 500
  /\ "evt-01" \notin DOMAIN processedEvents
  /\ DOMAIN issuedCodes # {}

\* C16: a request whose eventId has an entry of processedEvents not older
\* than 24 hours is answered with the stored response, whatever its result,
\* adds or changes no entry of the three Maps and queues nothing.
C16_ReplayWithinRetention ==
  [][(Handles /\ WellFormed(request') /\ Replayable(request'))
       => /\ reply' = [http |-> 200,
                       body |-> processedEvents[request'.eventId].response]
          /\ SessionsKept /\ CodesKept /\ EventsKept
          /\ queued' = [text |-> "none", code |-> NoCode]]_vars

\* a loss request was answered with the response a win report stored exactly
\* 24 hours earlier
C16_Witness ==
  /\ request = [result |-> "loss", eventId |-> "evt-01"]
  /\ "evt-01" \in DOMAIN processedEvents
  /\ now - processedEvents["evt-01"].createdAt = 24 * 60 * 60 * 1000
  /\ reply.body = processedEvents["evt-01"].response
  /\ reply.body.code # NoCode

\* what a request that runs the result logic returns
LogicRan ==
  /\ request'.result = "win"
       => \/ reply'.http = 500
          \/ reply'.http = 200 /\ reply'.body.code # NoCode
  /\ request'.result # "win" => LossOrDrawLogic

\* the response returned is stored under the eventId with the current time
ResponseStored ==
  /\ request'.eventId \in DOMAIN processedEvents'
  /\ processedEvents'[request'.eventId] =
       [createdAt |-> now, response |-> reply'.body]

\* C17 as stated: an accepted request without eventId runs the result logic
\* and leaves processedEvents as it was; one with an eventId that has no
\* cached entry runs the logic and stores the response it returns under the
\* eventId with the current time.
C17_CacheBypassAndStore ==
  [][(Handles /\ WellFormed(request'))
       => /\ request'.eventId = Absent
               => (LogicRan /\ UNCHANGED processedEvents)
          /\ (request'.eventId # Absent /\ ~Replayable(request'))
               => (LogicRan /\ ResponseStored)]_vars

\* C17: an accepted request without eventId runs the result logic and adds
\* or changes no entry of processedEvents (pruneExpired may delete expired
\* ones); one with an eventId that has no cached entry runs the logic and,
\* unless it ends with the server error, stores the response it returns
\* under the eventId with the current time.
C17_CacheBypassAndStoreOnSuccess ==
  [][(Handles /\ WellFormed(request'))
       => /\ request'.eventId = Absent
               => (LogicRan /\ EventsKept
                   /\ Absent \notin DOMAIN processedEvents')
          /\ (request'.eventId # Absent /\ ~Replayable(request'))
               => /\ LogicRan
                  /\ reply'.http = 200 => ResponseStored
                  /\ reply'.http # 200
                       => request'.eventId \notin DOMAIN processedEvents']_vars

\* a win request with a fresh eventId minted a code and stored its response
C17_Witness ==
  /\ request = [result |-> "win", eventId |-> "evt-01"]
  /\ now > 0
  /\ "evt-01" \in DOMAIN processedEvents
  /\ processedEvents["evt-01"] = [createdAt |-> now, response |-> reply.body]
  /\ reply.body.code # NoCode

(***************************************************************************)
(* Notification dispatch (SpecNotify)                                      *)
(***************************************************************************)
\* the step ends the sendTelegramMessage call of the last request
Settles == delivery = "pending" /\ delivery' \in DeliveryResults

\* C18: whenever a request queues its notification the response was sent
\* before, and the end of the notification, failure and timeout included,
\* changes neither the response sent nor an entry of the three Maps.
C18_NotificationAfterResponse ==
  /\ [](\A i \in 1..Len(order) :
          order[i] = "queue" => \E j \in 1..(i - 1) : order[j] = "respond")
  /\ [][Settles => UNCHANGED <<reply, issuedBySession, issuedCodes,
                               processedEvents>>]_vars

\* the notification of a win that minted a code failed or timed out after
\* the response
C18_Witness ==
  /\ delivery \in {"failed", "aborted"}
  /\ order = <<"respond", "queue">>
  /\ reply.http = 200
  /\ queued = [text |-> "win", code |-> reply.body.code]
  /\ reply.body.code \in DOMAIN issuedCodes

(***************************************************************************)
(* Clicks on cells (SpecClicks): clicked' is the cell of the click the     *)
(* step handles.                                                           *)
(***************************************************************************)
\* the step handles a click on a non-empty cell, or a click made while the
\* computer's turn is pending or after the game is over
IgnoredClick ==
  /\ clicked' # NoClick
  /\ board[clicked'] # Null \/ isLocked \/ gameOver

\* C19: a click on a non-empty cell, a click while isLocked and a click
\* after the game is over leave board, isLocked, gameOver and the pending
\* timers unchanged and send no report.
C19_IgnoredClicks ==
  [][IgnoredClick =>
       UNCHANGED <<board, isLocked, gameOver, computerTimer, computerPending,
                   winTimer, winPending, sent, awaiting>>]_vars

\* an empty cell was clicked while the computer's move was pending
C19_Witness ==
  /\ clicked # NoClick
  /\ board[clicked] = Null
  /\ isLocked
  /\ ~gameOver
  /\ computerPending = 1
  /\ CountMark(board, "X") > 0

(***************************************************************************)
(* Reports of the controller (SpecGame)                                    *)
(***************************************************************************)
\* the mark holds a complete line of the board
HoldsLine(mark) ==
  \E k \in LineNumbers :
    Complete(board, k) /\ board[winningCombos[k][1]] = mark

\* a report was sent during game g
Reported(g) == \E i \in 1..Len(reportGames) : reportGames[i] = g

\* no game has two reports, no two reports carry the same eventId, and a
\* report is sent only by a game that is over with a line: 'win' for the
\* player's, 'loss' for the computer's
ReportsSound ==
  /\ \A i, j \in 1..Len(sent) :
       i # j => (reportGames[i] # reportGames[j]
                 /\ sent[i].eventId # sent[j].eventId)
  /\ \A i \in 1..Len(sent) :
       reportGames[i] = game =>
         /\ gameOver
         /\ sent[i].result = "win" => HoldsLine("X")
         /\ sent[i].result = "loss" => HoldsLine("O")
  /\ (gameOver /\ ~HoldsLine("X") /\ ~HoldsLine("O")) => ~Reported(game)

\* C20 as stated: a game that is over with a line of either side eventually
\* has its report sent, with an eventId of its own; a drawn game has none;
\* no game has two.
C20_EveryWinReported ==
  /\ \A g \in 1..MaxGames :
       (game = g /\ gameOver /\ (HoldsLine("X") \/ HoldsLine("O")))
         ~> Reported(g)
  /\ []ReportsSound

\* C20: a game the computer won has its loss report sent at once; a game
\* the player won eventually has its win report sent unless the game is
\* reset before the win timeout fires, which the reset clears; each
\* report carries an eventId of its own; a drawn game has no report and no
\* game has two.
C20_WinReportedUnlessReset ==
  /\ \A g \in 1..MaxGames :
       (game = g /\ gameOver /\ HoldsLine("X"))
         ~> (Reported(g) \/ game > g)
  /\ [](gameOver /\ HoldsLine("O") => Reported(game))
  /\ [][game' > game => (winPending' = 0 /\ reportGames' = reportGames)]_vars
  /\ []ReportsSound

\* the second game was won by the player and reported after the first game
\* was reported as lost
C20_Witness ==
  /\ game = 2
  /\ gameOver
  /\ HoldsLine("X")
  /\ Len(sent) = 2
  /\ sent[1].result = "loss" /\ reportGames[1] = 1
  /\ sent[2].result = "win" /\ reportGames[2] = 2

(***************************************************************************)
(* Resets (SpecReset): game' > game marks the step of a resetGame(), and     *)
(* resetFrom holds what that reset found.                                    *)
(***************************************************************************)
\* the state resetGame() leaves: an empty board and a game that is on, with
\* the player to move and no computer move pending when the player starts,
\* with the board locked and one computer move pending otherwise
FreshGame ==
  /\ board' = [i \in 0..8 |-> Null]
  /\ ~gameOver'
  /\ IF playerStarts'
     THEN ~isLocked' /\ computerPending' = 0
     ELSE isLocked' /\ computerPending' = 1 /\ computerTimer' = "live"

\* C21: once gameOver is set, no step other than a reset (no click, no
\* callback of the computer's timeout) changes a cell of board or clears
\* gameOver; a reset
\* leaves an empty board with the player to move when the player starts, and
\* with a computer move pending and the board locked when the computer
\* starts.
C21_GameOverTerminal ==
  /\ [][(gameOver /\ game' = game) => (board' = board /\ gameOver')]_vars
  /\ [][game' > game => FreshGame]_vars

\* a game that was over has been reset with the computer starting
C21_Witness ==
  /\ game = 2
  /\ resetFrom.over
  /\ board = [i \in 0..8 |-> Null]
  /\ ~gameOver
  /\ ~playerStarts
  /\ isLocked
  /\ computerPending = 1

\* C22: at most one computer-move timeout is pending in every reachable
\* state, and a reset leaves pending no timeout that was queued before it:
\* none when the player starts, the one the reset itself queues otherwise.
C22_PendingMoveCancelled ==
  /\ [](computerPending <= 1)
  /\ [][game' > game
         => computerPending' = (IF playerStarts' THEN 0 ELSE 1)]_vars
  /\ [](~isLocked => computerPending = 0)

\* the game was reset, the player starting, while a computer move was
\* pending in a game that was on; no computer move is pending on the new
\* board
C22_Witness ==
  /\ game = 2
  /\ resetFrom = [over |-> FALSE, pending |-> 1]
  /\ playerStarts
  /\ board = [i \in 0..8 |-> Null]
  /\ ~isLocked
  /\ computerPending = 0

\* how many cells of board hold the mark
MarksOf(mark) == Cardinality({i \in 0..8 : board[i] = mark})

\* C23: in every reachable state the numbers of 'X' and of 'O' on the board
\* differ by at most 1, and the side that started the current game has no
\* fewer marks than the other.
C23_TurnAlternation ==
  /\ MarksOf("X") - MarksOf("O") \in {-1, 0, 1}
  /\ playerStarts => MarksOf("X") >= MarksOf("O")
  /\ ~playerStarts => MarksOf("O") >= MarksOf("X")

\* the second game, started by the computer after a reset that interrupted
\* a pending computer move, stands at three 'O' and two 'X'
C23_Witness ==
  /\ game = 2
  /\ resetFrom.pending = 1
  /\ ~playerStarts
  /\ MarksOf("O") = 3
  /\ MarksOf("X") = 2

(***************************************************************************)
(* Progress of one game (SpecPlay)                                         *)
(***************************************************************************)
\* the step runs the callback of the computer's timeout while the board is
\* locked and the game is on
ThinkingEnds == isLocked /\ ~gameOver /\ computerPending' < computerPending

\* C24: while the board is locked and the game is on the computer's timeout
\* is pending; when it fires, exactly one 'O' is added and the game is over
\* or the board is unlocked for the player; and a game that is not reset, in
\* which the timeout fires and the player clicks empty cells, reaches
\* gameOver, a board of 9 marks being over.
C24_ControllerProgress ==
  /\ []((isLocked /\ ~gameOver) => computerPending = 1)
  /\ [][ThinkingEnds
         => /\ MarksOf("O")' = MarksOf("O") + 1
            /\ MarksOf("X")' = MarksOf("X")
            /\ gameOver' \/ ~isLocked']_vars
  /\ []((\A i \in 0..8 : board[i] # Null) => gameOver)
  /\ <>gameOver

\* a game the computer started is over as a draw with all 9 cells marked
C24_Witness ==
  /\ gameOver
  /\ ~playerStarts
  /\ MarksOf("O") = 5
  /\ MarksOf("X") = 4
  /\ ~HoldsLine("X")
  /\ ~HoldsLine("O")

(***************************************************************************)
(* Tie-break of getBestMove (SpecBest)                                     *)
(***************************************************************************)
\* each empty cell of argBoard paired with the minimax score of the board
\* that has 'O' placed there, at depth 0 with the player to move
CellScores ==
  {<<i, minimax([argBoard EXCEPT ![i] = "O"], 0, FALSE,
                SettingsFor(argDifficulty).maxDepth)>> :
     i \in {c \in 0..8 : argBoard[c] = Null}}

\* the cells of the pairs whose score no pair exceeds
BestCells(scores) ==
  LET top == CHOOSE t \in {p[2] : p \in scores} :
               \A p \in scores : t >= p[2]
  IN {p[1] : p \in {q \in scores : q[2] = top}}

\* C25: getBestMove returns the lowest-indexed cell among the empty cells
\* whose minimax score (computer's mark placed there, depth 0, player to
\* move) equals the maximum over all empty cells.
C25_LowestIndexAmongBest ==
  called = "getBestMove" =>
    LET best == BestCells(CellScores)
    IN /\ move \in best
       /\ \A i \in best : move <= i

\* getBestMove returned the lower of several cells of equal, maximal score,
\* a cell of lower index having a lower score
C25_Witness ==
  /\ called = "getBestMove"
  /\ LET best == BestCells(CellScores)
     IN /\ move \in best
        /\ \E i \in best : i > move
        /\ \E i \in 0..8 : i < move /\ argBoard[i] = Null /\ i \notin best

(***************************************************************************)
(* Order of the lines (SpecEval)                                           *)
(***************************************************************************)
\* the order the lines are to be tried in: rows, columns, diagonals
FixedLineOrder ==
  << <<0, 1, 2>>, <<3, 4, 5>>, <<6, 7, 8>>,
     <<0, 3, 6>>, <<1, 4, 7>>, <<2, 5, 8>>,
     <<0, 4, 8>>, <<2, 4, 6>> >>

\* the three cells of the line hold the same mark
ThreeAlike(b, line) ==
  /\ b[line[1]] \in {"X", "O"}
  /\ b[line[2]] = b[line[1]]
  /\ b[line[3]] = b[line[1]]

\* C26: on a board with more than one line of three identical marks,
\* evaluateBoard returns the winner and the combo of the first such line in
\* the order rows, columns, diagonals.
C26_FirstLineInFixedOrder ==
  Evaluated =>
    \A k \in 1..8 :
      (/\ ThreeAlike(argBoard, FixedLineOrder[k])
       /\ \A j \in 1..(k - 1) : ~ThreeAlike(argBoard, FixedLineOrder[j])
       /\ \E j \in (k + 1)..8 : ThreeAlike(argBoard, FixedLineOrder[j]))
      => outcome = [winner |-> argBoard[FixedLineOrder[k][1]],
                    combo |-> FixedLineOrder[k], isDraw |-> FALSE]

\* a board whose middle row holds three 'O' and whose bottom row holds three
\* 'X' has been evaluated to a win of 'O' on the middle row
C26_Witness ==
  /\ Evaluated
  /\ ThreeAlike(argBoard, <<3, 4, 5>>) /\ argBoard[3] = "O"
  /\ ThreeAlike(argBoard, <<6, 7, 8>>) /\ argBoard[6] = "X"
  /\ ~ThreeAlike(argBoard, <<0, 1, 2>>)
  /\ outcome = [winner |-> "O", combo |-> <<3, 4, 5>>, isDraw |-> FALSE]

(***************************************************************************)
(* Heuristic scorer (SpecScore)                                            *)
(***************************************************************************)
\* how many of the three cells of the line hold the mark
MarksOnLine(b, line, mark) == Cardinality({j \in 1..3 : b[line[j]] = mark})

\* how many of the 8 lines hold exactly n of own and none of other
Tally(b, own, other, n) ==
  Cardinality({k \in 1..8 :
                 /\ MarksOnLine(b, FixedLineOrder[k], own) = n
                 /\ MarksOnLine(b, FixedLineOrder[k], other) = 0})

\* C27: scoreBoard is the sum over the 8 lines of +3 for exactly two 'O' and
\* no 'X', +1 for exactly one 'O' and no 'X', -3 for exactly two 'X' and no
\* 'O', -1 for exactly one 'X' and no 'O', and 0 for every other line.
C27_HeuristicScore ==
  called = "scoreBoard" =>
    score = 3 * Tally(argBoard, "O", "X", 2) + Tally(argBoard, "O", "X", 1)
            - 3 * Tally(argBoard, "X", "O", 2) - Tally(argBoard, "X", "O", 1)

\* scoreBoard returned 3 - 1 for a board with a line of three 'O', which adds
\* nothing, a line of 'O' and 'X', a line of two 'O' and a line of one 'X'
C27_Witness ==
  /\ called = "scoreBoard"
  /\ Tally(argBoard, "O", "X", 3) = 1
  /\ Tally(argBoard, "O", "X", 2) = 1
  /\ Tally(argBoard, "O", "X", 1) = 0
  /\ Tally(argBoard, "X", "O", 2) = 0
  /\ Tally(argBoard, "X", "O", 1) = 1
  /\ score = 2

(***************************************************************************)
(* Values of minimax (SpecMinimax)                                         *)
(***************************************************************************)
RECURSIVE GameValue(_, _, _)
\* the value of the game played from board b to its end, 'O' choosing the
\* greatest and 'X' the least value: 0 for a draw, 10 - d for a win of 'O'
\* and d - 10 for a win of 'X' reached at depth d
GameValue(b, d, oToMove) ==
  LET out == evaluateBoard(b)
      next == {GameValue([b EXCEPT ![i] = IF oToMove THEN "O" ELSE "X"],
                         d + 1, ~oToMove) :
                 i \in {c \in 0..8 : b[c] = Null}}
  IN IF out # NullOutcome
     THEN (IF out.isDraw THEN 0
           ELSE IF out.winner = "O" THEN 10 - d ELSE d - 10)
     ELSE IF oToMove
          THEN CHOOSE v \in next : \A w \in next : v >= w
          ELSE CHOOSE v \in next : \A w \in next : v <= w

\* C28: minimax returns 0 for a draw, 10 - depth for a win of 'O' and
\* depth - 10 for a win of 'X' at any depth, also at or beyond the cap; with
\* cap 3 a position that is not terminal gets scoreBoard's value at depth 3;
\* without cap the value is that of the game played to its end, the
\* heuristic taking no part.
C28_TerminalValuesAndCap ==
  called = "minimax" =>
    LET out == evaluateBoard(argBoard)
    IN /\ (out # NullOutcome /\ out.isDraw) => score = 0
       /\ (out # NullOutcome /\ ~out.isDraw /\ out.winner = "O")
            => score = 10 - argSearch.depth
       /\ (out # NullOutcome /\ ~out.isDraw /\ out.winner = "X")
            => score = argSearch.depth - 10
       /\ (out = NullOutcome /\ argSearch.maxDepth = 3
             /\ argSearch.depth = 3)
            => score = scoreBoard(argBoard)
       /\ (out = NullOutcome /\ argSearch.maxDepth = NullDepth)
            => score = GameValue(argBoard, argSearch.depth,
                                 argSearch.isMaximizing)

\* with cap 3, minimax at depth 4 returned depth - 10 for a board that 'X'
\* has won, where scoreBoard gives another value
C28_Witness ==
  /\ called = "minimax"
  /\ argSearch.maxDepth = 3
  /\ argSearch.depth = 4
  /\ evaluateBoard(argBoard) # NullOutcome
  /\ evaluateBoard(argBoard).winner = "X"
  /\ score = -6
  /\ scoreBoard(argBoard) # -6

(***************************************************************************)
(* Lazy pruning (SpecFrame)                                                *)
(***************************************************************************)
\* after the step no entry of the three Maps is older than its lifetime: 24
\* hours for processedEvents, 7 days for issuedCodes and issuedBySession
NothingExpired ==
  /\ \A e \in DOMAIN processedEvents' :
       now' - processedEvents'[e].createdAt <= 24 * 60 * 60 * 1000
  /\ \A c \in DOMAIN issuedCodes' :
       now' - issuedCodes'[c].createdAt <= 7 * 24 * 60 * 60 * 1000
  /\ \A k \in DOMAIN issuedBySession' :
       now' - issuedBySession'[k].createdAt <= 7 * 24 * 60 * 60 * 1000

\* the request finds an entry under its eventId that is older than 24 hours
FindsExpiredEvent ==
  /\ request'.eventId # Absent
  /\ request'.eventId \in DOMAIN processedEvents
  /\ now - processedEvents[request'.eventId].createdAt > 24 * 60 * 60 * 1000

\* the step appends a win report answered with a code that was not minted
\* for it and not read from processedEvents
ReusesCode ==
  /\ Len(log') = Len(log) + 1
  /\ log'[Len(log')].http = 200
  /\ ~log'[Len(log')].minted
  /\ ~log'[Len(log')].cached

\* C29: after an accepted request no entry of processedEvents is older than
\* 24 hours and no entry of issuedCodes or issuedBySession older than 7
\* days; a request that finds an entry older than 24 hours under its eventId
\* is not answered from it but runs the result logic; and a code that is
\* reused is that of an entry of issuedBySession no older than 7 days.
C29_LazyPruning ==
  /\ [][(Handles /\ WellFormed(request')) => NothingExpired]_vars
  /\ [][(Handles /\ WellFormed(request') /\ FindsExpiredEvent)
         => /\ LogicRan
            /\ reply'.http = 200 => ResponseStored]_vars
  /\ [][ReusesCode
         => /\ "s1" \in DOMAIN issuedBySession
            /\ reply'.body.code = issuedBySession["s1"].code
            /\ now - issuedBySession["s1"].createdAt
                 <= 7 * 24 * 60 * 60 * 1000]_vars

\* a loss request arrived more than 7 days after a win report with an
\* eventId had minted a code: the code, the session's entry and the event's
\* entry are gone
C29_Witness ==
  /\ request = [result |-> "loss", eventId |-> Absent]
  /\ reply.http = 200
  /\ \E i \in WinReports :
       /\ log[i].minted
       /\ log[i].eventId # Absent
       /\ now - log[i].at > 7 * 24 * 60 * 60 * 1000
       /\ log[i].body.code \notin DOMAIN issuedCodes
       /\ log[i].sessionId \notin DOMAIN issuedBySession
       /\ log[i].eventId \notin DOMAIN processedEvents

(***************************************************************************)
(* The two indices of the ledger (SpecServer)                              *)
(***************************************************************************)
\* C30: in every reachable state each entry of issuedBySession, held for a
\* session s with a code and a creation time, has an entry of issuedCodes
\* under that code whose sessionId is s and whose creation time is the same.
C30_LedgerIndexConsistency ==
  \A s \in DOMAIN issuedBySession :
    /\ issuedBySession[s].code \in DOMAIN issuedCodes
    /\ issuedCodes[issuedBySession[s].code].sessionId = s
    /\ issuedCodes[issuedBySession[s].code].createdAt
         = issuedBySession[s].createdAt

\* a session was issued a second code after its cooldown: issuedCodes holds
\* both codes for the session, issuedBySession the later one
C30_Witness ==
  /\ DOMAIN issuedBySession = {"s1"}
  /\ Cardinality(DOMAIN issuedCodes) = 2
  /\ \A c \in DOMAIN issuedCodes : issuedCodes[c].sessionId = "s1"
  /\ issuedBySession["s1"].createdAt > 0
  /\ issuedCodes[issuedBySession["s1"].code].createdAt
       = issuedBySession["s1"].createdAt
  /\ now > issuedBySession["s1"].createdAt

(***************************************************************************)
(* Who receives a code (SpecOwner): request' is the request the step       *)
(* handles with the session that sent it, the primed Maps are those the    *)
(* response leaves.                                                        *)
(***************************************************************************)
\* the step answers a request with a response that contains a code
AnswersWithCode ==
  /\ Handles
  /\ reply'.http = 200
  /\ reply'.body.code # NoCode

\* the session issuedCodes records for the code of the response
OwnerOfCode == issuedCodes'[reply'.body.code].sessionId

\* the win report of session s that ran the ledger logic and stored the
\* entry of processedEvents the request is answered from
StoredBy(s) ==
  \E i \in WinReports :
    /\ log[i].sessionId = s
    /\ log[i].eventId = request'.eventId
    /\ ~log[i].cached
    /\ log[i].entryAt = processedEvents[request'.eventId].createdAt
    /\ log[i].body = reply'.body

\* C31 as stated: for every response that contains a code, replayed through
\* an eventId or not, the session that sent the request is the session that
\* issuedCodes records for that code.
C31_CodeOnlyToOwner ==
  [][AnswersWithCode
       => /\ reply'.body.code \in DOMAIN issuedCodes'
          /\ OwnerOfCode = request'.sessionId]_vars

\* C31: every response that contains a code carries a code that is a key of
\* issuedCodes; when the response is not replayed through an eventId the
\* session that sent the request is the session recorded for the code, and
\* when it is replayed the session recorded is the one whose win report
\* stored the response under the eventId.
C31_CodeToOwnerOrFirstSender ==
  [][AnswersWithCode
       => /\ reply'.body.code \in DOMAIN issuedCodes'
          /\ ~Replayable(request') => OwnerOfCode = request'.sessionId
          /\ Replayable(request') => StoredBy(OwnerOfCode)]_vars

\* session s2 repeated the eventId of a win report of session s1 and was
\* answered with the code issuedCodes records for s1
C31_Witness ==
  /\ request = [result |-> "win", eventId |-> "evt-01", sessionId |-> "s2"]
  /\ reply.http = 200
  /\ reply.body.code \in DOMAIN issuedCodes
  /\ issuedCodes[reply.body.code].sessionId = "s1"
  /\ processedEvents["evt-01"].response = reply.body
  /\ \E i \in WinReports :
       log[i].sessionId = "s1" /\ log[i].minted /\ log[i].eventId = "evt-01"

(***************************************************************************)
(* Codes of one session (SpecServer)                                       *)
(***************************************************************************)
\* the keys of issuedCodes whose entry records session s
CodesOf(s) == {c \in DOMAIN issuedCodes : issuedCodes[c].sessionId = s}

\* C32 as stated: in every reachable state each session is recorded in at
\* most one entry of issuedCodes.
C32_OneEntryPerSession ==
  \A s \in Sessions : Cardinality(CodesOf(s)) <= 1

\* C32: in every reachable state any two entries of issuedCodes that record
\* the same session were created at least the cooldown window apart, so each
\* session is recorded in at most one entry younger than the cooldown
\* window, and the entries of a session other than the one issuedBySession
\* points to are older.
C32_OneEntryPerCooldown ==
  \A s \in Sessions :
    LET codes == CodesOf(s)
    IN /\ \A c, d \in codes :
            (c # d /\ issuedCodes[c].createdAt <= issuedCodes[d].createdAt)
              => issuedCodes[d].createdAt - issuedCodes[c].createdAt
                   >= SESSION_COOLDOWN_MS
       /\ Cardinality({c \in codes :
                         now - issuedCodes[c].createdAt < SESSION_COOLDOWN_MS})
            <= 1
       /\ s \in DOMAIN issuedBySession
            => \A c \in codes \ {issuedBySession[s].code} :
                 issuedCodes[c].createdAt < issuedBySession[s].createdAt

\* session s1 was issued a second code exactly 24 hours after its first,
\* which issuedCodes still holds; the other session holds one code
C32_Witness ==
  /\ Cardinality(CodesOf("s1")) = 2
  /\ \E c, d \in CodesOf("s1") :
       /\ issuedCodes[d].createdAt - issuedCodes[c].createdAt
            = SESSION_COOLDOWN_MS
       /\ issuedBySession["s1"].code = d
       /\ now = issuedCodes[d].createdAt

(***************************************************************************)
(* The lock of the board (SpecReset)                                       *)
(***************************************************************************)
\* C33: in every reachable state gameOver implies isLocked, and while
\* isLocked is set and gameOver is not, exactly one computer-move timeout is
\* pending and computerTimer names it, so that its callback, which unlocks
\* the board or ends the game, is still to run and a reset can clear it.
C33_NoStuckLock ==
  /\ gameOver => isLocked
  /\ (isLocked /\ ~gameOver)
       => (computerPending = 1 /\ computerTimer = "live")
  /\ gameOver => computerPending = 0

\* in the game that followed a finished one the player has clicked a cell
\* and the board is locked for the computer's move, its timeout pending
C33_Witness ==
  /\ game = 2
  /\ resetFrom.over
  /\ playerStarts
  /\ MarksOf("X") = MarksOf("O") + 1
  /\ isLocked
  /\ ~gameOver
  /\ computerPending = 1
  /\ computerTimer = "live"

(***************************************************************************)
(* The promo code across a reset (SpecPromo)                               *)
(***************************************************************************)
\* C34: in a game that a reset started, currentPromoCode is empty unless
\* the player has won that game, whenever the response to the win report of
\* the game before arrives.
C34_ResetDiscardsPromo ==
  (game > 1 /\ currentPromoCode # NoCode) => (gameOver /\ HoldsLine("X"))

(***************************************************************************)
(* The array after a search (SpecInPlace)                                  *)
(***************************************************************************)
\* C35: when getBestMove or minimax returns, called on a board whose empty
\* cells are null, with depth cap or without, each of the 9 cells of the
\* array holds the value it held before the call.
C35_SearchRestoresBoard ==
  [][called' # called => \A i \in 0..8 : argBoard'[i] = argBoard[i]]_vars

\* getBestMove without depth cap has returned a move for a board of three
\* empty cells with no line on it, and the three cells are null
C35_Witness ==
  /\ called = "getBestMove"
  /\ argSearch.maxDepth = -1
  /\ move \in 0..8
  /\ Cardinality({i \in 0..8 : argBoard[i] = "null"}) = 3
  /\ argBoard[move] = "null"
  /\ evaluateBoard(argBoard) = NullOutcome

====
